---- MODULE Spec2Model ----
(***************************************************************************)
(* The session engine of the SquirrelDB Go client (Client in the client    *)
(* source): the request/response correlator (pending), the subscription    *)
(* registry (subscriptions), the read loop (receiveLoop, dispatchMessage,  *)
(* handleDisconnect) and the public calls built on send (Query, Subscribe, *)
(* Ping) and Close.                                                        *)
(*                                                                         *)
(* Every goroutine is a process with a program counter.  A step is one     *)
(* atomic operation of the code: an atomic load/swap, one critical section *)
(* of pendingMu or subMu (only map operations and channel closes happen    *)
(* inside them), one channel operation, one socket operation.              *)
(***************************************************************************)
EXTENDS Integers, Sequences, FiniteSets, TLC

\* ---------------------------------------------------------------- bounds
NumCallers == 2      \* foreground goroutines issuing API calls
MaxID == 2           \* calls issued on the session (values of requestID)
ChangesCap == 1      \* capacity of a subscription's delivery queue (100 in the source)
DeliveryCap == 2     \* the same capacity where the order inside a queue is followed

Callers == 1..NumCallers
IDs == 1..MaxID

\* ---------------------------------------------------------------- values
ErrMsgs == {"conflict", "denied"}

\* A nil *ChangeEvent.
NoEvent == <<>>

NoMsg == [Type |-> "none", ID |-> 0, Change |-> NoEvent, Error |-> ""]

\* ServerMessage as decoded from a frame: a reply of type t for id i ...
Reply(t, i, e) == [Type |-> t, ID |-> i, Change |-> NoEvent, Error |-> e]

\* ... or a change notification for id i.  Its event is written <<i, n>>: the
\* id of the envelope that carried it and the number of its frame, which tell
\* the events apart.
ChangeMsg(i, n) == [Type |-> "change", ID |-> i, Change |-> <<i, n>>, Error |-> ""]

\* A payload that DecodeMessage rejects.
Junk == [Type |-> "junk", ID |-> 0, Change |-> NoEvent, Error |-> ""]

NoResult == [err |-> "none", text |-> "", resp |-> NoMsg]

VARIABLES
    requestID,      \* Client.requestID, the atomic counter behind nextID
    pending,        \* Client.pending: per id, the channel of its entry, 0 when it has none
    respCh,         \* the one-shot reply channels; send's call with id i makes channel i
    subscriptions,  \* Client.subscriptions: per id, the queue of its entry, 0 when it has none
    changes,        \* the delivery queues; Subscribe's call with id i makes queue i
    closed,         \* Client.closed (atomic.Bool)
    closedCh,       \* TRUE once receiveLoop's deferred close(c.closedCh) ran
    conn,           \* the transport: "open", "reset" (failed), "closed" (conn.Close)
    pc,             \* per caller, its position
    op,             \* per caller, the API call it is in
    cid,            \* per caller, the correlation id of its call (msg.ID)
    result,         \* per caller, what its last call returned
    ctxDone,        \* per caller, whether the ctx of its call has expired
    rl,             \* the read loop goroutine: position, current frame, channel looked up
    nFrames,        \* frames read from the server so far
    written,        \* ids of the request frames the server has received
    panicked,       \* a goroutine panicked (send on / close of a closed channel)
    hist,           \* history: what the properties remember of the run
    connecting,     \* a Connect call: its options, its transport, its position and its outcome
    codec,          \* a call of one of the protocol's pure functions: its arguments and its value
    sessions,       \* the request counters of the sessions of one process and the ids they issued
    writer,         \* the write side of the socket: writeMu and the writes in progress
    stream,         \* the read side of the socket, byte by byte, and the read loop on it
    locking,        \* pendingMu and subMu: who holds them and where each goroutine is in its routine
    consumer,       \* the consumers of the subscriptions: what each has received from its queue
    cache,          \* a CacheClient: its connection, the server behind it and the callers of execute
    builder         \* a QueryBuilder: its fields and the structured query compiled from it

\* The variables of the session engine.
vars == <<requestID, pending, respCh, subscriptions, changes, closed, closedCh,
          conn, pc, op, cid, result, ctxDone, rl, nFrames, written, panicked,
          hist>>

\* The variables of the parts modelled on their own (Connect and its handshake,
\* the wire format, the id counters, the writer lock, the framing of the read
\* loop, the two table locks, the consumers, the cache client, the query
\* builder): the session engine leaves them alone.
partVars == <<connecting, codec, sessions, writer, stream, locking, consumer,
              cache, builder>>

allVars == <<vars, partVars>>

\* make(chan *ChangeEvent, 100): the capacity of a delivery queue, scaled
\* down; it is the larger one where the consumers are followed.
QueueCap == IF consumer = [pc |-> "off"] THEN ChangesCap ELSE DeliveryCap

\* Frames the server sends on the session.
MaxFrames == QueueCap + 2

\* The variables by owner, for the UNCHANGED clauses.
pendVars == <<pending, respCh>>

subVars == <<subscriptions, changes>>

flagVars == <<closed, closedCh>>

callVars == <<pc, op, cid, result, ctxDone>>

srvVars == <<nFrames, written>>

\* make(chan *ServerMessage, 1): buf is the buffered reply; sends and closes
\* count the operations performed on the channel (to 2).
NoChan == [made |-> FALSE, buf |-> NoMsg, shut |-> FALSE, sends |-> 0, closes |-> 0]

NewRespCh == [made |-> TRUE, buf |-> NoMsg, shut |-> FALSE, sends |-> 0, closes |-> 0]

\* make(chan *ChangeEvent, 100)
NoQueue == [made |-> FALSE, q |-> <<>>, shut |-> FALSE]

NewChanges == [made |-> TRUE, q |-> <<>>, shut |-> FALSE]

\* What the properties remember of the run; no action reads it.
\*   closeReturned  some Close call has returned
\*   tearer         the caller whose last call is the Close that performed the
\*                  teardown, 0 when there is none
\*   tearReturned   that Close call has returned
\*   teardowns      times the registry sweep of Close ran (counted to 2)
\*   connCloses     times conn.Close was called (counted to 2)
\*   connCloseErr   what conn.Close returned
\*   readErr        a read of the read loop returned an error
\*   fatal          handleDisconnect was entered
\*   started        per caller, when its current call started
\*   acked          ids whose Subscribe got a non-error reply from send
\*   remover        per id, the path that removed its pending entry
\*   dropped        a change event met a full queue
\*   stray          a change event met no registry entry
\*   unsubbed       ids whose Unsubscribe has returned
\*   unsubSent      per id, the unsubscribe envelopes written (counted to 2)
NoHist ==
    [closeReturned |-> FALSE, tearer |-> 0, tearReturned |-> FALSE,
     teardowns |-> 0, connCloses |-> 0, connCloseErr |-> "none",
     readErr |-> FALSE, fatal |-> FALSE,
     started |-> [c \in Callers |-> "none"],
     acked |-> {}, remover |-> [i \in IDs |-> "none"],
     dropped |-> FALSE, stray |-> FALSE,
     unsubbed |-> {}, unsubSent |-> [i \in IDs |-> 0]]

\* Connect has returned the session: the handshake succeeded and the read
\* loop has been started.
SessionInit ==
    /\ requestID = 0
    /\ pending = [i \in IDs |-> 0]
    /\ respCh = [i \in IDs |-> NoChan]
    /\ subscriptions = [i \in IDs |-> 0]
    /\ changes = [i \in IDs |-> NoQueue]
    /\ closed = FALSE
    /\ closedCh = FALSE
    /\ conn = "open"
    /\ pc = [c \in Callers |-> "idle"]
    /\ op = [c \in Callers |-> "none"]
    /\ cid = [c \in Callers |-> 0]
    /\ result = [c \in Callers |-> NoResult]
    /\ ctxDone = [c \in Callers |-> FALSE]
    /\ rl = [pc |-> "top", cur |-> NoMsg, ch |-> 0]
    /\ nFrames = 0
    /\ written = {}
    /\ panicked = FALSE
    /\ hist = NoHist

\* A part that is not being exercised.
Off == [pc |-> "off"]

Init ==
    /\ SessionInit
    /\ connecting = Off
    /\ codec = Off
    /\ sessions = Off
    /\ writer = Off
    /\ stream = Off
    /\ locking = Off
    /\ consumer = Off
    /\ cache = Off
    /\ builder = Off

Min(a, b) == IF a < b THEN a ELSE b

\* ------------------------------------------------------------ API calls
\* A caller's call returns r.
Return(c, r) ==
    /\ pc' = [pc EXCEPT ![c] = "idle"]
    /\ result' = [result EXCEPT ![c] = r]
    /\ ctxDone' = [ctxDone EXCEPT ![c] = FALSE]

\* The call goes on at position p.
Goto(c, p) ==
    /\ pc' = [pc EXCEPT ![c] = p]
    /\ UNCHANGED <<result, ctxDone>>

ErrClosed == [err |-> "ErrClosed", text |-> "connection closed", resp |-> NoMsg]

\* fmt.Errorf("failed to send: %w", err)
SendErr == [err |-> "send", text |-> "failed to send", resp |-> NoMsg]

Nil(resp) == [err |-> "nil", text |-> "", resp |-> resp]

\* When a call starts, relative to the end of the session.
StartedWhen ==
    IF hist.closeReturned THEN "afterClose"
    ELSE IF rl.pc = "stopped" /\ hist.fatal /\ ~closed THEN "afterFatal"
    ELSE "live"

\* A send that does not look at the closed flag.
sendSeesClosed_Never == FALSE

\* send: if c.closed.Load() { return nil, ErrClosed }
sendSeesClosed == closed

\* Query, Subscribe, Ping up to the first statement of send: the message gets
\* the next id (nextID: requestID.Add(1)) and send looks at the closed flag.
\* Insert, Update, Delete and ListCollections go through send exactly as Query
\* does.
Call(c, o) ==
    /\ ~panicked
    /\ pc[c] = "idle"
    /\ requestID < MaxID
    /\ requestID' = requestID + 1
    /\ cid' = [cid EXCEPT ![c] = requestID + 1]
    /\ op' = [op EXCEPT ![c] = o]
    /\ IF sendSeesClosed
         THEN Return(c, ErrClosed)
         ELSE /\ pc' = [pc EXCEPT ![c] = "send_reg"]
              /\ result' = [result EXCEPT ![c] = NoResult]
              /\ UNCHANGED ctxDone
    /\ hist' = [hist EXCEPT !.started[c] = StartedWhen,
                            !.tearer = IF @ = c THEN 0 ELSE @]
    /\ UNCHANGED <<pendVars, subVars, flagVars, conn, rl, srvVars, panicked>>
    /\ UNCHANGED partVars

Query(c) == Call(c, "query")

Subscribe(c) == Call(c, "subscribe")

Ping(c) == Call(c, "ping")

\* send: respCh := make(chan *ServerMessage, 1); c.pending[msg.ID] = respCh
send_register(c) ==
    /\ ~panicked
    /\ pc[c] = "send_reg"
    /\ respCh' = [respCh EXCEPT ![cid[c]] = NewRespCh]
    /\ pending' = [pending EXCEPT ![cid[c]] = cid[c]]
    /\ Goto(c, "send_write")
    /\ UNCHANGED <<requestID, subVars, flagVars, conn, op, cid, rl, srvVars,
                   panicked, hist>>
    /\ UNCHANGED partVars

\* What conn.Write can return: nil on a healthy transport, an error after
\* conn.Close, either on a transport that has failed (the kernel may still
\* take the bytes).
WriteOutcomes ==
    CASE conn = "open" -> {TRUE}
      [] conn = "reset" -> {TRUE, FALSE}
      [] conn = "closed" -> {FALSE}

\* send: c.writeMu.Lock(); _, err = c.conn.Write(frame); c.writeMu.Unlock()
\* (writeMu is held for the write alone)
send_write(c) ==
    /\ ~panicked
    /\ pc[c] = "send_write"
    /\ \E ok \in WriteOutcomes :
         /\ Goto(c, IF ok THEN "send_wait" ELSE "send_werr")
         /\ written' = IF ok /\ conn = "open" THEN written \cup {cid[c]} ELSE written
    /\ UNCHANGED <<requestID, pendVars, subVars, flagVars, conn, op, cid, rl,
                   nFrames, panicked, hist>>
    /\ UNCHANGED partVars

\* A send that leaves its entry in the table when its write fails.
send_writeFailed_Keep(c) ==
    /\ ~panicked
    /\ pc[c] = "send_werr"
    /\ Return(c, SendErr)
    /\ UNCHANGED <<requestID, pendVars, subVars, flagVars, conn, op, cid, rl,
                   srvVars, panicked, hist>>
    /\ UNCHANGED partVars

\* send: if err != nil { delete(c.pending, msg.ID); return "failed to send" }
send_writeFailed(c) ==
    /\ ~panicked
    /\ pc[c] = "send_werr"
    /\ pending' = [pending EXCEPT ![cid[c]] = 0]
    /\ hist' = IF pending[cid[c]] # 0
                 THEN [hist EXCEPT !.remover[cid[c]] = "send"]
                 ELSE hist
    /\ Return(c, SendErr)
    /\ UNCHANGED <<requestID, respCh, subVars, flagVars, conn, op, cid, rl,
                   srvVars, panicked>>
    /\ UNCHANGED partVars

\* Query: if resp.Type == "error" { return nil, errors.New(resp.Error) }
QueryResult(resp) ==
    IF resp.Type = "error"
      THEN [err |-> "server", text |-> resp.Error, resp |-> resp]
      ELSE Nil(resp)

\* A Ping that takes any reply for an acknowledgment.
PingResult_AnyReply(resp) == Nil(resp)

\* Ping: if resp.Type != "pong" { return fmt.Errorf("unexpected response: %s", resp.Type) }
PingResult(resp) ==
    IF resp.Type # "pong"
      THEN [err |-> "protocol", text |-> resp.Type, resp |-> resp]
      ELSE Nil(resp)

\* A Subscribe that registers whatever the reply.
SubscribeAccepts_Any(resp) == TRUE

\* Subscribe: if resp.Type == "error" { return nil, errors.New(resp.Error) }:
\* whether the reply lets the subscription be registered
SubscribeAccepts(resp) == resp.Type # "error"

\* What the call does with the reply send returned.
AfterSend(c, resp) ==
    CASE op[c] = "query" ->
           /\ Return(c, QueryResult(resp))
           /\ UNCHANGED hist
      [] op[c] = "ping" ->
           /\ Return(c, PingResult(resp))
           /\ UNCHANGED hist
      [] op[c] = "subscribe" ->
           IF SubscribeAccepts(resp)
             THEN /\ pc' = [pc EXCEPT ![c] = "sub_reg"]
                  /\ result' = [result EXCEPT ![c] = [NoResult EXCEPT !.resp = resp]]
                  /\ UNCHANGED ctxDone
                  /\ hist' = IF resp.Type # "error"
                               THEN [hist EXCEPT !.acked = @ \cup {resp.ID}]
                               ELSE hist
             ELSE /\ Return(c, QueryResult(resp))
                  /\ UNCHANGED hist

\* send: select { case resp, ok := <-respCh: ...; case <-c.closedCh: ... }
\* (the ctx of the call is not among the cases).  When several cases are ready
\* the select takes any of them.
send_wait(c) ==
    /\ ~panicked
    /\ pc[c] = "send_wait"
    /\ \/ /\ respCh[cid[c]].buf # NoMsg
          /\ respCh' = [respCh EXCEPT ![cid[c]].buf = NoMsg]
          /\ AfterSend(c, respCh[cid[c]].buf)
       \/ /\ respCh[cid[c]].buf = NoMsg
          /\ respCh[cid[c]].shut
          /\ Return(c, ErrClosed)
          /\ UNCHANGED <<respCh, hist>>
       \/ /\ closedCh
          /\ Return(c, ErrClosed)
          /\ UNCHANGED <<respCh, hist>>
    /\ UNCHANGED <<requestID, pending, subVars, flagVars, conn, op, cid, rl,
                   srvVars, panicked>>
    /\ UNCHANGED partVars

\* Subscribe: changes := make(chan *ChangeEvent, 100); c.subscriptions[id] = changes;
\* return &Subscription{...}
Subscribe_register(c) ==
    /\ ~panicked
    /\ pc[c] = "sub_reg"
    /\ changes' = [changes EXCEPT ![cid[c]] = NewChanges]
    /\ subscriptions' = [subscriptions EXCEPT ![cid[c]] = cid[c]]
    /\ Return(c, Nil(result[c].resp))
    /\ UNCHANGED <<requestID, pendVars, flagVars, conn, op, cid, rl, srvVars,
                   panicked, hist>>
    /\ UNCHANGED partVars

\* The deadline of the ctx a caller passed expires (or the ctx is cancelled)
\* while the call awaits its reply.
CtxExpire(c) ==
    /\ ~panicked
    /\ pc[c] = "send_wait"
    /\ ~ctxDone[c]
    /\ ctxDone' = [ctxDone EXCEPT ![c] = TRUE]
    /\ UNCHANGED <<requestID, pendVars, subVars, flagVars, conn, pc, op, cid,
                   result, rl, srvVars, panicked, hist>>
    /\ UNCHANGED partVars

\* Subscription.Changes: the consumer receives one event from the queue.
Changes_recv(i) ==
    /\ ~panicked
    /\ changes[i].made
    /\ changes[i].q # <<>>
    /\ changes' = [changes EXCEPT ![i].q = Tail(@)]
    /\ UNCHANGED <<requestID, pendVars, subscriptions, flagVars, conn,
                   callVars, rl, srvVars, panicked, hist>>
    /\ UNCHANGED partVars

\* ---------------------------------------------------------------- Close
\* A Close that goes on whatever the flag was.
CloseAlready_Never(old) == FALSE

\* Close: if c.closed.Swap(true) { return nil }: whether the swapped-out value
\* ends the call
CloseAlready(old) == old

Close_swap(c) ==
    /\ ~panicked
    /\ pc[c] = "idle"
    /\ closed' = TRUE
    /\ op' = [op EXCEPT ![c] = "close"]
    /\ cid' = [cid EXCEPT ![c] = 0]
    /\ IF CloseAlready(closed)
         THEN /\ Return(c, Nil(NoMsg))
              /\ hist' = [hist EXCEPT !.closeReturned = TRUE, !.started[c] = "none",
                                      !.tearer = IF @ = c THEN 0 ELSE @]
         ELSE /\ pc' = [pc EXCEPT ![c] = "close_subs"]
              /\ result' = [result EXCEPT ![c] = NoResult]
              /\ UNCHANGED ctxDone
              /\ hist' = [hist EXCEPT !.started[c] = "none"]
    /\ UNCHANGED <<requestID, pendVars, subVars, closedCh, conn, rl, srvVars,
                   panicked>>
    /\ UNCHANGED partVars

\* close(ch) of a delivery queue
CloseQueue(ch) == [ch EXCEPT !.shut = TRUE]

\* The queues the registry holds.
Registered == {subscriptions[i] : i \in IDs} \ {0}

\* Close: for id, ch := range c.subscriptions { close(ch); delete(c.subscriptions, id) }
\* under subMu.  Closing a closed channel panics.
Close_subs(c) ==
    /\ ~panicked
    /\ pc[c] = "close_subs"
    /\ changes' = [j \in IDs |-> IF j \in Registered THEN CloseQueue(changes[j])
                                 ELSE changes[j]]
    /\ subscriptions' = [i \in IDs |-> 0]
    /\ panicked' = \E j \in Registered : changes[j].shut
    /\ Goto(c, "close_conn")
    /\ hist' = [hist EXCEPT !.teardowns = Min(@ + 1, 2), !.tearer = c]
    /\ UNCHANGED <<requestID, pendVars, flagVars, conn, op, cid, rl, srvVars>>
    /\ UNCHANGED partVars

\* What conn.Close can return: nil, or the error of the transport.
ConnCloseOutcomes == {"nil", "close"}

\* Close: return c.conn.Close()
Close_conn(c) ==
    /\ ~panicked
    /\ pc[c] = "close_conn"
    /\ conn' = "closed"
    /\ \E e \in ConnCloseOutcomes :
         /\ Return(c, [err |-> e, text |-> "", resp |-> NoMsg])
         /\ hist' = [hist EXCEPT !.closeReturned = TRUE, !.tearReturned = TRUE,
                                 !.connCloses = Min(@ + 1, 2), !.connCloseErr = e]
    /\ UNCHANGED <<requestID, pendVars, subVars, flagVars, op, cid, rl,
                   srvVars, panicked>>
    /\ UNCHANGED partVars

\* ------------------------------------------------------------ transport
\* The connection fails (peer gone, network error).
TransportFail ==
    /\ ~panicked
    /\ conn = "open"
    /\ conn' = "reset"
    /\ UNCHANGED <<requestID, pendVars, subVars, flagVars, callVars, rl,
                   srvVars, panicked, hist>>
    /\ UNCHANGED partVars

\* The frames the server can send next: for any request it has received, in
\* any order and any number of times, a reply of one of the types T ...
Replies(T) ==
    {Reply(t, i, "") : t \in T \ {"error"}, i \in written}
      \cup {Reply("error", i, m) : i \in IF "error" \in T THEN written ELSE {},
                                   m \in ErrMsgs}

\* ... or a change notification.
Notifications == {ChangeMsg(i, nFrames + 1) : i \in written}

\* ------------------------------------------------------------ read loop
RlGoto(p) == rl' = [rl EXCEPT !.pc = p]

\* receiveLoop: for !c.closed.Load() { ... }; leaving the loop runs the
\* deferred close(c.closedCh)
receiveLoop_top ==
    /\ ~panicked
    /\ rl.pc = "top"
    /\ RlGoto(IF closed THEN "exit" ELSE "hdr")
    /\ UNCHANGED <<requestID, pendVars, subVars, flagVars, conn, callVars,
                   srvVars, panicked, hist>>
    /\ UNCHANGED partVars

\* receiveLoop: io.ReadFull(c.reader, header) returns the 6 bytes of the next
\* frame, f
receiveLoop_readHeader(f) ==
    /\ ~panicked
    /\ rl.pc = "hdr"
    /\ conn = "open"
    /\ nFrames < MaxFrames
    /\ rl' = [rl EXCEPT !.pc = "pay", !.cur = f]
    /\ nFrames' = nFrames + 1
    /\ UNCHANGED <<requestID, pendVars, subVars, flagVars, conn, callVars,
                   written, panicked, hist>>
    /\ UNCHANGED partVars

\* receiveLoop: the read of the header or of the payload returns an error
receiveLoop_readError ==
    /\ ~panicked
    /\ rl.pc \in {"hdr", "pay"}
    /\ conn # "open"
    /\ rl' = [rl EXCEPT !.pc = "rderr", !.cur = NoMsg]
    /\ hist' = [hist EXCEPT !.readErr = TRUE]
    /\ UNCHANGED <<requestID, pendVars, subVars, flagVars, conn, callVars,
                   srvVars, panicked>>
    /\ UNCHANGED partVars

\* A read loop that takes a payload it cannot decode for a dead connection.
receiveLoop_readPayload_Fatal ==
    /\ ~panicked
    /\ rl.pc = "pay"
    /\ conn = "open"
    /\ IF rl.cur = Junk
         THEN rl' = [rl EXCEPT !.pc = "sweep", !.cur = NoMsg]
         ELSE RlGoto("dispatch")
    /\ UNCHANGED <<requestID, pendVars, subVars, flagVars, conn, callVars,
                   srvVars, panicked, hist>>
    /\ UNCHANGED partVars

\* receiveLoop: io.ReadFull(c.reader, payload), then DecodeMessage: a payload
\* that does not decode is skipped (continue)
receiveLoop_readPayload ==
    /\ ~panicked
    /\ rl.pc = "pay"
    /\ conn = "open"
    /\ IF rl.cur = Junk
         THEN rl' = [rl EXCEPT !.pc = "top", !.cur = NoMsg]
         ELSE RlGoto("dispatch")
    /\ UNCHANGED <<requestID, pendVars, subVars, flagVars, conn, callVars,
                   srvVars, panicked, hist>>
    /\ UNCHANGED partVars

\* receiveLoop: if !c.closed.Load() { c.handleDisconnect(err) }; return
receiveLoop_afterError ==
    /\ ~panicked
    /\ rl.pc = "rderr"
    /\ RlGoto(IF ~closed THEN "sweep" ELSE "exit")
    /\ hist' = [hist EXCEPT !.fatal = @ \/ ~closed]
    /\ UNCHANGED <<requestID, pendVars, subVars, flagVars, conn, callVars,
                   srvVars, panicked>>
    /\ UNCHANGED partVars

\* close(ch) of a reply channel
CloseResp(ch) == [ch EXCEPT !.shut = TRUE, !.closes = Min(@ + 1, 2)]

\* The reply channels the pending table holds.
Awaited == {pending[i] : i \in IDs} \ {0}

\* handleDisconnect: for id, ch := range c.pending { close(ch); delete(c.pending, id) }
\* under pendingMu
handleDisconnect ==
    /\ ~panicked
    /\ rl.pc = "sweep"
    /\ respCh' = [j \in IDs |-> IF j \in Awaited THEN CloseResp(respCh[j])
                                ELSE respCh[j]]
    /\ pending' = [i \in IDs |-> 0]
    /\ panicked' = \E j \in Awaited : respCh[j].shut
    /\ hist' = [hist EXCEPT !.remover = [i \in IDs |-> IF pending[i] # 0 THEN "sweep"
                                                       ELSE @[i]]]
    /\ RlGoto("exit")
    /\ UNCHANGED <<requestID, subVars, flagVars, conn, callVars, srvVars>>
    /\ UNCHANGED partVars

\* A read loop that returns without closing closedCh.
receiveLoop_exit_NoSignal ==
    /\ ~panicked
    /\ rl.pc = "exit"
    /\ RlGoto("stopped")
    /\ UNCHANGED <<requestID, pendVars, subVars, flagVars, conn, callVars,
                   srvVars, panicked, hist>>
    /\ UNCHANGED partVars

\* receiveLoop: defer close(c.closedCh)
receiveLoop_exit ==
    /\ ~panicked
    /\ rl.pc = "exit"
    /\ closedCh' = TRUE
    /\ RlGoto("stopped")
    /\ UNCHANGED <<requestID, pendVars, subVars, closed, conn, callVars,
                   srvVars, panicked, hist>>
    /\ UNCHANGED partVars

\* dispatchMessage: msg.Type == "change" && msg.Change != nil
IsChange(msg) == msg.Type = "change" /\ msg.Change # NoEvent

\* dispatchMessage: ch, ok := c.subscriptions[msg.ID] under subMu.RLock
dispatchMessage_change ==
    /\ ~panicked
    /\ rl.pc = "dispatch"
    /\ IsChange(rl.cur)
    /\ IF subscriptions[rl.cur.ID] # 0
         THEN /\ rl' = [rl EXCEPT !.pc = "enqueue", !.ch = subscriptions[rl.cur.ID]]
              /\ UNCHANGED hist
         ELSE /\ rl' = [rl EXCEPT !.pc = "top", !.cur = NoMsg]
              /\ hist' = [hist EXCEPT !.stray = TRUE]
    /\ UNCHANGED <<requestID, pendVars, subVars, flagVars, conn, callVars,
                   srvVars, panicked>>
    /\ UNCHANGED partVars

\* A send that ignores the capacity of the queue.
SubEnqueue_Unbounded(ch, ev) == [ch EXCEPT !.q = Append(@, ev)]

\* A send that puts the event in front of those waiting in the queue.
SubEnqueue_Front(ch, ev) ==
    IF Len(ch.q) < QueueCap THEN [ch EXCEPT !.q = <<ev>> \o @] ELSE ch

\* dispatchMessage: select { case ch <- msg.Change: default: }
SubEnqueue(ch, ev) ==
    IF Len(ch.q) < QueueCap THEN [ch EXCEPT !.q = Append(@, ev)] ELSE ch

\* The non-blocking send on the queue looked up.  A send on a closed channel
\* panics.
dispatchMessage_enqueue ==
    /\ ~panicked
    /\ rl.pc = "enqueue"
    /\ IF changes[rl.ch].shut
         THEN /\ panicked' = TRUE
              /\ UNCHANGED <<changes, rl, hist>>
         ELSE /\ changes' = [changes EXCEPT ![rl.ch] = SubEnqueue(@, rl.cur.Change)]
              /\ rl' = [pc |-> "top", cur |-> NoMsg, ch |-> 0]
              /\ hist' = [hist EXCEPT !.dropped = @ \/ Len(changes[rl.ch].q) >= QueueCap]
              /\ UNCHANGED panicked
    /\ UNCHANGED <<requestID, pendVars, subscriptions, flagVars, conn,
                   callVars, srvVars>>
    /\ UNCHANGED partVars

\* A lookup that takes any waiting channel for a known id.
PendingLookup_Any(id) ==
    IF pending[id] # 0 THEN CHOOSE j \in Awaited : j # pending[id] \/ Awaited = {j}
    ELSE 0

\* dispatchMessage: ch, ok := c.pending[msg.ID]
PendingLookup(id) == pending[id]

\* A dispatch that leaves the entry in the table.
PendingDelete_Keep(id) == pending

\* dispatchMessage: if ok { delete(c.pending, msg.ID) }
PendingDelete(id) == [pending EXCEPT ![id] = 0]

\* A dispatch that hands a reply nobody waits for to the first call waiting.
dispatchMessage_reply_Reroute ==
    /\ ~panicked
    /\ rl.pc = "dispatch"
    /\ ~IsChange(rl.cur)
    /\ LET ch == IF PendingLookup(rl.cur.ID) # 0 \/ Awaited = {}
                   THEN PendingLookup(rl.cur.ID)
                   ELSE CHOOSE j \in Awaited : TRUE
       IN IF ch # 0
            THEN /\ pending' = PendingDelete(ch)
                 /\ rl' = [rl EXCEPT !.pc = "deliver", !.ch = ch]
                 /\ hist' = [hist EXCEPT !.remover[ch] = "dispatch"]
            ELSE /\ rl' = [rl EXCEPT !.pc = "top", !.cur = NoMsg]
                 /\ UNCHANGED <<pending, hist>>
    /\ UNCHANGED <<requestID, respCh, subVars, flagVars, conn, callVars,
                   srvVars, panicked>>
    /\ UNCHANGED partVars

\* dispatchMessage: the lookup and removal of the pending entry under pendingMu
dispatchMessage_reply ==
    /\ ~panicked
    /\ rl.pc = "dispatch"
    /\ ~IsChange(rl.cur)
    /\ IF PendingLookup(rl.cur.ID) # 0
         THEN /\ pending' = PendingDelete(rl.cur.ID)
              /\ rl' = [rl EXCEPT !.pc = "deliver", !.ch = PendingLookup(rl.cur.ID)]
              /\ hist' = [hist EXCEPT !.remover[rl.cur.ID] = "dispatch"]
         ELSE /\ rl' = [rl EXCEPT !.pc = "top", !.cur = NoMsg]
              /\ UNCHANGED <<pending, hist>>
    /\ UNCHANGED <<requestID, respCh, subVars, flagVars, conn, callVars,
                   srvVars, panicked>>
    /\ UNCHANGED partVars

\* dispatchMessage: if ok { ch <- msg }.  The channel has room for one reply: a
\* send on a full channel waits, a send on a closed channel panics.
dispatchMessage_deliver ==
    /\ ~panicked
    /\ rl.pc = "deliver"
    /\ IF respCh[rl.ch].shut
         THEN /\ panicked' = TRUE
              /\ UNCHANGED <<respCh, rl>>
         ELSE /\ respCh[rl.ch].buf = NoMsg
              /\ respCh' = [respCh EXCEPT ![rl.ch].buf = rl.cur,
                                          ![rl.ch].sends = Min(@ + 1, 2)]
              /\ rl' = [pc |-> "top", cur |-> NoMsg, ch |-> 0]
              /\ UNCHANGED panicked
    /\ UNCHANGED <<requestID, pending, subVars, flagVars, conn, callVars,
                   srvVars, hist>>
    /\ UNCHANGED partVars

\* ------------------------------------------------------- specifications
\* The steps of a call inside send.
SendStep(c) ==
    \/ send_register(c)
    \/ send_write(c)
    \/ send_writeFailed(c)
    \/ send_wait(c)

\* The steps of Close after its swap.
CloseStep(c) ==
    \/ Close_subs(c)
    \/ Close_conn(c)

\* The steps of the read loop on the request/response path, other than the
\* read that waits for the server.
ReadLoopStep ==
    \/ receiveLoop_top
    \/ receiveLoop_readError
    \/ receiveLoop_readPayload
    \/ receiveLoop_afterError
    \/ handleDisconnect
    \/ receiveLoop_exit
    \/ dispatchMessage_reply
    \/ dispatchMessage_deliver

\* The steps of the read loop on the notification path.
NotifyStep ==
    \/ dispatchMessage_change
    \/ dispatchMessage_enqueue

\* The whole session.
Next ==
    \/ \E c \in Callers : Query(c)
    \/ \E c \in Callers : Subscribe(c)
    \/ \E c \in Callers : Ping(c)
    \/ \E c \in Callers : SendStep(c)
    \/ \E c \in Callers : Subscribe_register(c)
    \/ \E c \in Callers : CtxExpire(c)
    \/ \E c \in Callers : Close_swap(c)
    \/ \E c \in Callers : CloseStep(c)
    \/ \E i \in IDs : Changes_recv(i)
    \/ TransportFail
    \/ \E f \in Replies({"result", "pong", "error"}) \cup Notifications \cup {Junk} :
         receiveLoop_readHeader(f)
    \/ ReadLoopStep
    \/ NotifyStep

Spec == Init /\ [][Next]_allVars

\* The request path alone, for the properties of behaviours: callers issue
\* Query and call Close, the ctx of a waiting call may expire, the server may
\* reply, the transport may fail.
LiveNext ==
    \/ \E c \in Callers : Query(c)
    \/ \E c \in Callers : SendStep(c)
    \/ \E c \in Callers : CtxExpire(c)
    \/ \E c \in Callers : Close_swap(c)
    \/ \E c \in Callers : CloseStep(c)
    \/ TransportFail
    \/ \E f \in Replies({"result"}) : receiveLoop_readHeader(f)
    \/ ReadLoopStep

\* Scheduling: every goroutine that can take a step of its own eventually takes
\* it (the Go scheduler), and a read of a dead transport returns.  Nothing
\* obliges the server to send, the transport to fail, a ctx to expire or a
\* caller to start a call.
LiveSpec ==
    /\ Init
    /\ [][LiveNext]_allVars
    /\ \A c \in Callers : WF_vars(SendStep(c)) /\ WF_vars(CloseStep(c))
    /\ WF_vars(ReadLoopStep)

\* --------------------------------------------------------------- claims
\* C1: a request's one-shot slot is acted on by at most one of reply dispatch
\* and the disconnect sweep, and only by the path that removed its table
\* entry: the replies sent into a slot and the closes of it number at most one
\* together; a slot that got a reply had its entry removed by dispatch, a slot
\* that was closed had it removed by the sweep; the read loop is about to send
\* only into an open, empty slot whose entry it has removed.
C1_OnePathPerSlot ==
    /\ \A i \in IDs :
         /\ respCh[i].sends + respCh[i].closes <= 1
         /\ respCh[i].sends = 1 => hist.remover[i] = "dispatch"
         /\ respCh[i].closes = 1 => hist.remover[i] = "sweep"
    /\ rl.pc = "deliver" =>
         /\ rl.ch = rl.cur.ID
         /\ hist.remover[rl.ch] = "dispatch"
         /\ pending[rl.ch] = 0
         /\ ~respCh[rl.ch].shut
         /\ respCh[rl.ch].sends = 0

\* One request was answered and another was swept on the same session.
C1_Witness ==
    \E i, j \in IDs : respCh[i].sends = 1 /\ respCh[j].closes = 1

\* C2: once a read of the read loop has failed, every caller blocked in send
\* with no reply in its slot eventually returns ErrClosed.
C2_DisconnectReleasesAll ==
    \A c \in Callers :
      (hist.readErr /\ pc[c] = "send_wait" /\ respCh[cid[c]].buf = NoMsg)
        ~> (pc[c] = "idle" /\ result[c] = ErrClosed)

\* Every caller was blocked when the read failed (its slot was closed by the
\* sweep) and has returned ErrClosed.
C2_Witness ==
    /\ hist.fatal
    /\ \A c \in Callers :
         /\ cid[c] \in IDs
         /\ respCh[cid[c]].closes = 1
         /\ pc[c] = "idle"
         /\ result[c] = ErrClosed

\* C3: a reply is only ever put into the slot of the request with its id, a
\* caller that returns a reply returns the envelope with the id of its own
\* request, and a Query fails with a server error exactly on an error envelope
\* with its own id, carrying that envelope's message (Ping reports an error
\* envelope as an unexpected reply type).
C3_NoCrossDelivery ==
    /\ \A i \in IDs : respCh[i].buf # NoMsg => respCh[i].buf.ID = i
    /\ \A c \in Callers :
         /\ result[c].resp # NoMsg =>
              /\ result[c].resp.ID = cid[c]
              /\ (op[c] = "query" /\ result[c].resp.Type = "error") =>
                   /\ result[c].err = "server"
                   /\ result[c].text = result[c].resp.Error
                   /\ result[c].text \in ErrMsgs
         /\ result[c].err = "server" => result[c].resp.Type = "error"

\* Replies out of order: the call with id 2 has failed with the server's
\* error for id 2 while the call with id 1, whose request the server has, is
\* still waiting.
C3_Witness ==
    \E c, d \in Callers :
      /\ cid[c] = 1 /\ pc[c] = "send_wait" /\ 1 \in written
      /\ respCh[1].buf = NoMsg
      /\ cid[d] = 2 /\ pc[d] = "idle" /\ result[d].err = "server"

\* C4: a delivery queue never holds more than its capacity; the read loop's
\* send on a queue is always able to proceed; and when the queue is full the
\* send leaves every queue as it was and the read loop goes on to the next
\* frame.
C4_Backpressure ==
    /\ [](\A i \in IDs : Len(changes[i].q) <= ChangesCap)
    /\ []((rl.pc = "enqueue" /\ ~panicked) => ENABLED dispatchMessage_enqueue)
    /\ [][(/\ rl.pc = "enqueue"
           /\ ~changes[rl.ch].shut
           /\ Len(changes[rl.ch].q) = ChangesCap
           /\ rl'.pc # "enqueue")
            => (rl'.pc = "top" /\ changes' = changes)]_vars

\* An event met a full queue and a queue is full.
C4_Witness ==
    /\ hist.dropped
    /\ \E i \in IDs : Len(changes[i].q) = ChangesCap

\* C5: a subscription is registered, and its queue exists, only after send
\* returned a non-error reply to the Subscribe call with that id; a queue
\* holds only events of envelopes with its own id; and a change envelope whose
\* id has no registry entry is enqueued nowhere.
C5_EventsOnlyAfterAck ==
    /\ [](\A i \in IDs :
            /\ (subscriptions[i] # 0 \/ changes[i].made) => i \in hist.acked
            /\ subscriptions[i] \in {0, i}
            /\ \A k \in 1..Len(changes[i].q) : changes[i].q[k][1] = i)
    /\ [][(/\ rl.pc = "dispatch"
           /\ IsChange(rl.cur)
           /\ subscriptions[rl.cur.ID] = 0
           /\ rl'.pc # "dispatch")
            => (rl'.pc = "top" /\ changes' = changes)]_vars

\* A change event that came before the registration was discarded and a later
\* one was enqueued.
C5_Witness ==
    /\ hist.stray
    /\ \E i \in IDs : changes[i].q # <<>>

\* C6, as stated: Close tears down at most once and every Close call returns
\* nil.
C6_CloseNeverFails ==
    /\ hist.teardowns <= 1
    /\ hist.connCloses <= 1
    /\ \A c \in Callers :
         (op[c] = "close" /\ pc[c] = "idle") => result[c].err = "nil"

\* C6, amended: the registry sweep and conn.Close each run at most once, and
\* exactly once by the time the Close call that ran them returns; that call
\* returns what conn.Close returned and every other Close call returns nil.
C6_CloseOnce ==
    /\ hist.teardowns <= 1
    /\ hist.connCloses <= 1
    /\ hist.tearReturned => (hist.teardowns = 1 /\ hist.connCloses = 1)
    /\ \A c \in Callers :
         (op[c] = "close" /\ pc[c] = "idle") =>
           result[c].err = IF c = hist.tearer THEN hist.connCloseErr ELSE "nil"

\* Two Close calls have returned, one of which closed a subscription's queue.
C6_Witness ==
    /\ \E c, d \in Callers :
         /\ c # d
         /\ op[c] = "close" /\ pc[c] = "idle" /\ hist.tearer = c
         /\ op[d] = "close" /\ pc[d] = "idle"
    /\ \E i \in IDs : changes[i].shut

\* C7, as stated: once the Close call that tore the session down has
\* returned, the registry is empty and every queue Subscribe has made is
\* closed.
C7_NoOpenSubscriptionAfterClose ==
    hist.tearReturned =>
      \A i \in IDs : subscriptions[i] = 0 /\ (changes[i].made => changes[i].shut)

\* C8: a call started after a Close call has returned has returned ErrClosed
\* at once: no channel was made for its id, its id has no pending entry and
\* the server was sent nothing with its id.
C8_CallAfterCloseFails ==
    \A c \in Callers :
      hist.started[c] = "afterClose" =>
        /\ pc[c] = "idle"
        /\ result[c] = ErrClosed
        /\ ~respCh[cid[c]].made
        /\ pending[cid[c]] = 0
        /\ cid[c] \notin written

\* A call was started after Close had returned.
C8_Witness ==
    \E c \in Callers : hist.started[c] = "afterClose" /\ result[c] = ErrClosed

\* C9, as stated: a call started after the read loop stopped on a fatal read
\* error, Close never called, returns ErrClosed.
C9_CallAfterFatalIsClosed ==
    \A c \in Callers :
      (hist.started[c] = "afterFatal" /\ pc[c] = "idle" /\ ~closed)
        => result[c] = ErrClosed

\* C10, as stated: a call whose ctx expires while it awaits its reply returns.
C10_DeadlineReleasesCaller ==
    \A c \in Callers :
      (pc[c] = "send_wait" /\ ctxDone[c]) ~> (pc[c] = "idle")

\* ============================================================ wire format
\* The protocol's constants.
ProtocolVersion == 1

\* 'S', 'Q', 'R', 'L'
Magic == <<83, 81, 82, 76>>

HandshakeSuccess == 0

HandshakeVersionMismatch == 1

HandshakeAuthFailed == 2

MessageTypeRequest == 1

MessageTypeResponse == 2

MessageTypeNotification == 3

EncodingMessagePack == 1

EncodingJSON == 2

MaxMessageSize == 16777216

\* A uint32 is written <<hi, lo>>, its two 16-bit halves, so that the values
\* near 2^32 are values of the model.
U32Of(n) == <<(n \div 65536) % 65536, n % 65536>>

\* v - 2 in uint32: the subtraction wraps below zero.
U32Sub2(v) ==
    IF v[2] >= 2 THEN <<v[1], v[2] - 2>>
    ELSE <<(v[1] + 65535) % 65536, v[2] + 65534>>

\* v > n, for a uint32 v and an n below 2^31
U32Gt(v, n) ==
    \/ v[1] > U32Of(n)[1]
    \/ v[1] = U32Of(n)[1] /\ v[2] > U32Of(n)[2]

\* binary.BigEndian.PutUint32
PutUint32(v) == <<v[1] \div 256, v[1] % 256, v[2] \div 256, v[2] % 256>>

\* binary.BigEndian.Uint32
Uint32(b) == <<b[1] * 256 + b[2], b[3] * 256 + b[4]>>

\* binary.BigEndian.PutUint16 of a uint16
PutUint16(v) == <<v \div 256, v % 256>>

\* uint16(n): the conversion keeps the low 16 bits
Uint16Of(n) == n % 65536

\* ProtocolFlags.ToByte
ToByte(f) ==
    (IF f.MessagePack THEN 1 ELSE 0) + (IF f.JSONFallback THEN 2 ELSE 0)

\* A decoding with the two bits exchanged.
FlagsFromByte_Swapped(b) ==
    [MessagePack |-> (b \div 2) % 2 # 0, JSONFallback |-> b % 2 # 0]

\* FlagsFromByte: b&0x01 != 0, b&0x02 != 0
FlagsFromByte(b) ==
    [MessagePack |-> b % 2 # 0, JSONFallback |-> (b \div 2) % 2 # 0]

\* BuildHandshake: magic, version, flags byte, uint16(len(token)) big-endian,
\* token
BuildHandshake(authToken, flags) ==
    Magic \o <<ProtocolVersion, ToByte(flags)>>
          \o PutUint16(Uint16Of(Len(authToken))) \o authToken

\* A parser that turns away the versions it does not speak.
ParseHandshakeResponse_Strict(data) ==
    IF Len(data) < 19 \/ data[2] # ProtocolVersion
      THEN [err |-> "too short", Status |-> 0, Version |-> 0,
            Flags |-> FlagsFromByte(0), SessionID |-> <<>>]
      ELSE [err |-> "nil", Status |-> data[1], Version |-> data[2],
            Flags |-> FlagsFromByte(data[3]), SessionID |-> SubSeq(data, 4, 19)]

\* ParseHandshakeResponse
ParseHandshakeResponse(data) ==
    IF Len(data) < 19
      THEN [err |-> "too short", Status |-> 0, Version |-> 0,
            Flags |-> FlagsFromByte(0), SessionID |-> <<>>]
      ELSE [err |-> "nil", Status |-> data[1], Version |-> data[2],
            Flags |-> FlagsFromByte(data[3]), SessionID |-> SubSeq(data, 4, 19)]

\* BuildFrame: uint32(len(payload) + 2) big-endian, type, encoding, payload
BuildFrame(msgType, encoding, payload) ==
    PutUint32(U32Of(Len(payload) + 2)) \o <<msgType, encoding>> \o payload

\* A parser that takes the declared length for the payload's.
ParseFrameHeader_NoSub(data) ==
    IF Len(data) < 6
      THEN [err |-> "too short", PayloadLength |-> U32Of(0), MsgType |-> 0,
            Encoding |-> 0]
      ELSE [err |-> "nil", PayloadLength |-> Uint32(SubSeq(data, 1, 4)),
            MsgType |-> data[5], Encoding |-> data[6]]

\* ParseFrameHeader: payloadLength := length - 2 in uint32
ParseFrameHeader(data) ==
    IF Len(data) < 6
      THEN [err |-> "too short", PayloadLength |-> U32Of(0), MsgType |-> 0,
            Encoding |-> 0]
      ELSE [err |-> "nil", PayloadLength |-> U32Sub2(Uint32(SubSeq(data, 1, 4))),
            MsgType |-> data[5], Encoding |-> data[6]]

\* ====================================================== Connect, handshake
\* bounds
MaxSent == 2         \* request frames written after Connect returned

\* Auth tokens a caller passes: none, "t", "tok".
Tokens == {<<>>, <<116>>, <<116, 111, 107>>}

\* A nil *Options.
NilOptions == [nil |-> TRUE, UseMessagePack |-> FALSE, AuthToken |-> <<>>]

\* The options of a Connect call.
OptionsSet ==
    {NilOptions} \cup [nil : {FALSE}, UseMessagePack : BOOLEAN, AuthToken : Tokens]

\* DefaultOptions
DefaultOptions == [nil |-> FALSE, UseMessagePack |-> TRUE, AuthToken |-> <<>>]

\* Connect: if opts == nil { opts = DefaultOptions() }
OptsOf(o) == IF o.nil THEN DefaultOptions ELSE o

\* Session identifiers a server hands out.
SessionIDs == {[i \in 1..16 |-> 0], [i \in 1..16 |-> 15 * i + 10]}

\* What a server can answer to the handshake, 19 bytes: status, version,
\* flags, session identifier.
Responses ==
    {<<s, v, f>> \o id : s \in {0, 1, 2, 3, 255}, v \in {1, 2},
                        f \in {0, 1, 2, 3}, id \in SessionIDs}

Hex == <<"0", "1", "2", "3", "4", "5", "6", "7", "8", "9", "a", "b", "c", "d", "e", "f">>

\* %x of a byte slice: two lower-case digits a byte
RECURSIVE HexOf(_)
HexOf(b) ==
    IF b = <<>> THEN <<>>
    ELSE <<Hex[(Head(b) \div 16) + 1], Hex[(Head(b) % 16) + 1]>> \o HexOf(Tail(b))

\* UUIDToString: "%08x-%04x-%04x-%04x-%012x" of b[0:4], b[4:6], b[6:8],
\* b[8:10], b[10:16]
UUIDToString(b) ==
    HexOf(SubSeq(b, 1, 4)) \o <<"-">> \o HexOf(SubSeq(b, 5, 6)) \o <<"-">>
      \o HexOf(SubSeq(b, 7, 8)) \o <<"-">> \o HexOf(SubSeq(b, 9, 10)) \o <<"-">>
      \o HexOf(SubSeq(b, 11, 16))

NoErr == [kind |-> "nil", server |-> 0, client |-> 0, status |-> 0]

Err(k) == [kind |-> k, server |-> 0, client |-> 0, status |-> 0]

\* A handshake that takes every status it does not know for success.
HandshakeVerdict_Lenient(resp) ==
    CASE resp.Status = HandshakeVersionMismatch ->
           [kind |-> "version mismatch", server |-> resp.Version,
            client |-> ProtocolVersion, status |-> 0]
      [] resp.Status = HandshakeAuthFailed -> Err("auth failed")
      [] OTHER -> NoErr

\* handshake: switch resp.Status
HandshakeVerdict(resp) ==
    CASE resp.Status = HandshakeSuccess -> NoErr
      [] resp.Status = HandshakeVersionMismatch ->
           [kind |-> "version mismatch", server |-> resp.Version,
            client |-> ProtocolVersion, status |-> 0]
      [] resp.Status = HandshakeAuthFailed -> Err("auth failed")
      [] OTHER -> [kind |-> "unexpected status", server |-> 0, client |-> 0,
                   status |-> resp.Status]

\* A session that encodes as its caller prefers, whatever the server chose.
SessionEncoding_Preferred(resp, opts) ==
    IF opts.UseMessagePack THEN EncodingMessagePack ELSE EncodingJSON

\* handshake: if resp.Flags.MessagePack { c.encoding = EncodingMessagePack }
\* else { c.encoding = EncodingJSON }
SessionEncoding(resp, opts) ==
    IF resp.Flags.MessagePack THEN EncodingMessagePack ELSE EncodingJSON

\* handshake: flags := ProtocolFlags{MessagePack: opts.UseMessagePack, JSONFallback: true}
HandshakeFlags(opts) == [MessagePack |-> opts.UseMessagePack, JSONFallback |-> TRUE]

\* EncodeMessage: the payload of message m in an encoding.  Of the bytes the
\* encoders produce the model keeps what tells the encodings apart, the first
\* byte (a MessagePack map header, or '{'), and one byte for the content.
EncodeMessage(m, encoding) ==
    IF encoding = EncodingMessagePack THEN <<130, m>> ELSE <<123, m>>

\* A Connect call about to dial, with options o.
NewConnect(o) ==
    [pc |-> "dial", opts |-> o, conn |-> "none", out |-> <<>>, response |-> <<>>,
     herr |-> NoErr, client |-> FALSE, err |-> NoErr, encoding |-> 0,
     sessionID |-> <<>>, loop |-> FALSE, sent |-> <<>>,
     dial |-> "none", write |-> "none", read |-> "none"]

ConnectInit ==
    /\ SessionInit
    /\ connecting \in {NewConnect(o) : o \in OptionsSet}
    /\ codec = Off
    /\ sessions = Off
    /\ writer = Off
    /\ stream = Off
    /\ locking = Off
    /\ consumer = Off
    /\ cache = Off
    /\ builder = Off

ConnectRest == <<vars, codec, sessions, writer, stream,
    locking, consumer, cache, builder>>

\* Connect: conn, err := d.DialContext(ctx, "tcp", addr); on an error return
\* nil, "failed to connect"; else build the Client
Connect_dial ==
    /\ connecting.pc = "dial"
    /\ \/ connecting' = [connecting EXCEPT !.pc = "done", !.dial = "fail",
                                           !.err = Err("failed to connect")]
       \/ connecting' = [connecting EXCEPT !.pc = "hs_write", !.dial = "ok",
                                           !.conn = "open"]
    /\ UNCHANGED ConnectRest

\* handshake: c.conn.Write(BuildHandshake(opts.AuthToken, flags))
handshake_write ==
    /\ connecting.pc = "hs_write"
    /\ \/ connecting' = [connecting EXCEPT
                           !.pc = "hs_read", !.write = "ok",
                           !.out = BuildHandshake(OptsOf(connecting.opts).AuthToken,
                                                  HandshakeFlags(OptsOf(connecting.opts)))]
       \/ connecting' = [connecting EXCEPT
                           !.pc = "hs_fail", !.write = "fail",
                           !.herr = Err("failed to send handshake")]
    /\ UNCHANGED ConnectRest

\* handshake: io.ReadFull(c.reader, response) returns an error (the server
\* went away or sent fewer than 19 bytes)
handshake_readError ==
    /\ connecting.pc = "hs_read"
    /\ connecting' = [connecting EXCEPT
                        !.pc = "hs_fail", !.read = "fail",
                        !.herr = Err("failed to read handshake response")]
    /\ UNCHANGED ConnectRest

\* handshake: the 19 bytes are read; ParseHandshakeResponse; switch
\* resp.Status; on success c.sessionID and c.encoding are set
handshake_read(response) ==
    /\ connecting.pc = "hs_read"
    /\ LET resp == ParseHandshakeResponse(response)
           verdict == IF resp.err # "nil" THEN Err(resp.err)
                      ELSE HandshakeVerdict(resp)
       IN IF verdict # NoErr
            THEN connecting' = [connecting EXCEPT
                                  !.pc = "hs_fail", !.read = "ok",
                                  !.response = response, !.herr = verdict]
            ELSE connecting' = [connecting EXCEPT
                                  !.pc = "hs_ok", !.read = "ok",
                                  !.response = response,
                                  !.sessionID = UUIDToString(resp.SessionID),
                                  !.encoding = SessionEncoding(resp, OptsOf(connecting.opts))]
    /\ UNCHANGED ConnectRest

\* A Connect that leaves the transport open when the handshake fails.
Connect_fail_Leak ==
    /\ connecting.pc = "hs_fail"
    /\ connecting' = [connecting EXCEPT !.pc = "done", !.err = connecting.herr]
    /\ UNCHANGED ConnectRest

\* Connect: if err := c.handshake(opts); err != nil { conn.Close(); return nil, err }
Connect_fail ==
    /\ connecting.pc = "hs_fail"
    /\ connecting' = [connecting EXCEPT !.pc = "done", !.conn = "closed",
                                        !.err = connecting.herr]
    /\ UNCHANGED ConnectRest

\* Connect: go c.receiveLoop(); return c, nil
Connect_return ==
    /\ connecting.pc = "hs_ok"
    /\ connecting' = [connecting EXCEPT !.pc = "done", !.loop = TRUE,
                                        !.client = TRUE]
    /\ UNCHANGED ConnectRest

\* send on the session Connect returned: payload, err := EncodeMessage(msg,
\* c.encoding); frame := BuildFrame(MessageTypeRequest, c.encoding, payload);
\* c.conn.Write(frame)
send_frame(m) ==
    /\ connecting.pc = "done"
    /\ connecting.client
    /\ Len(connecting.sent) < MaxSent
    /\ connecting' = [connecting EXCEPT
                        !.sent = Append(@, BuildFrame(MessageTypeRequest,
                                                      connecting.encoding,
                                                      EncodeMessage(m, connecting.encoding)))]
    /\ UNCHANGED ConnectRest

ConnectNext ==
    \/ Connect_dial
    \/ handshake_write
    \/ handshake_readError
    \/ \E response \in Responses : handshake_read(response)
    \/ Connect_fail
    \/ Connect_return
    \/ \E m \in IDs : send_frame(m)

ConnectSpec == ConnectInit /\ [][ConnectNext]_allVars

\* C11: a Connect whose dial, handshake write or handshake read failed, or
\* whose handshake status is not success, returns an error; a Connect that
\* returns an error returns no session, has started no read loop, has written
\* no request, and has closed the transport if it had opened it; the read loop
\* is only ever started by a Connect that succeeds.
C11_FailedConnectLeavesNothing ==
    /\ connecting.loop =>
         (connecting.pc = "done" /\ connecting.err = NoErr /\ connecting.herr = NoErr)
    /\ connecting.pc = "done" =>
         /\ (\/ connecting.dial = "fail"
             \/ connecting.write = "fail"
             \/ connecting.read = "fail"
             \/ (connecting.read = "ok" /\ connecting.response[1] # HandshakeSuccess))
              => connecting.err # NoErr
         /\ connecting.err # NoErr =>
              /\ ~connecting.client
              /\ ~connecting.loop
              /\ connecting.sent = <<>>
              /\ connecting.conn = IF connecting.dial = "ok" THEN "closed" ELSE "none"

\* A Connect has failed on the server's answer, after the transport was open.
C11_Witness ==
    /\ connecting.pc = "done"
    /\ connecting.err.kind = "auth failed"
    /\ connecting.conn = "closed"

\* C12: of a Connect that read the 19 bytes of the answer: status 0 succeeds,
\* with the session identifier and an encoding recorded and the read loop
\* started; status 1 fails with the version-mismatch error carrying the
\* server's version and the client's; status 2 fails with the authentication
\* error; any other status fails with the generic error carrying the status.
\* Only status 0 gives a session.
C12_StatusByte ==
    /\ (connecting.pc = "done" /\ connecting.read = "ok") =>
         /\ connecting.response[1] = 0 =>
              /\ connecting.err = NoErr
              /\ connecting.client
              /\ connecting.loop
              /\ connecting.sessionID = UUIDToString(SubSeq(connecting.response, 4, 19))
              /\ connecting.encoding \in {EncodingMessagePack, EncodingJSON}
         /\ connecting.response[1] = 1 =>
              connecting.err = [kind |-> "version mismatch",
                                server |-> connecting.response[2],
                                client |-> ProtocolVersion, status |-> 0]
         /\ connecting.response[1] = 2 => connecting.err = Err("auth failed")
         /\ connecting.response[1] \notin {0, 1, 2} =>
              connecting.err = [kind |-> "unexpected status", server |-> 0,
                                client |-> 0, status |-> connecting.response[1]]
    /\ (connecting.client \/ connecting.loop) =>
         (connecting.read = "ok" /\ connecting.response[1] = 0)

\* A Connect has failed on status 255.
C12_Witness ==
    /\ connecting.pc = "done"
    /\ connecting.err.kind = "unexpected status"
    /\ connecting.err.status = 255

\* C13: the handshake written has bit1 of its flags byte set and bit0 set
\* exactly when the caller prefers MessagePack (no options: the default,
\* which does); the session's encoding is MessagePack if bit0 of the flags
\* byte of the answer is set and JSON if not; every request frame written on
\* the session names that encoding in its header and holds a payload in it.
C13_NegotiatedEncoding ==
    /\ connecting.out # <<>> =>
         /\ (connecting.out[6] \div 2) % 2 = 1
         /\ (connecting.out[6] % 2 = 1) <=> OptsOf(connecting.opts).UseMessagePack
         /\ connecting.out[6] < 4
    /\ connecting.client =>
         /\ connecting.encoding =
              IF connecting.response[3] % 2 = 1 THEN EncodingMessagePack
              ELSE EncodingJSON
         /\ \A k \in 1..Len(connecting.sent) :
              /\ connecting.sent[k][5] = MessageTypeRequest
              /\ connecting.sent[k][6] = connecting.encoding
              /\ \E m \in IDs :
                   SubSeq(connecting.sent[k], 7, Len(connecting.sent[k]))
                     = EncodeMessage(m, connecting.encoding)

\* The caller preferred MessagePack, the server chose JSON, and requests were
\* written.
C13_Witness ==
    /\ connecting.client
    /\ OptsOf(connecting.opts).UseMessagePack
    /\ connecting.encoding = EncodingJSON
    /\ Len(connecting.sent) = MaxSent

\* ============================================================ id counters
\* bounds
NumSessions == 2     \* sessions open in the process
MaxIssued == 11      \* ids a session issues

Sessions == 1..NumSessions

\* fmt.Sprintf("%d", n): the decimal digits of n
RECURSIVE Sprintf_d(_)
Sprintf_d(n) ==
    IF n < 10 THEN <<Hex[n + 1]>>
    ELSE Sprintf_d(n \div 10) \o <<Hex[(n % 10) + 1]>>

\* The number a string of decimal digits writes.
RECURSIVE Atoi(_)
Atoi(str) ==
    IF str = <<>> THEN 0
    ELSE 10 * Atoi(SubSeq(str, 1, Len(str) - 1))
           + (CHOOSE d \in 0..9 : Hex[d + 1] = str[Len(str)])

\* A counter shared by the sessions of the process.
CounterOf_Shared(s) == 1

\* The counter a session's nextID uses: its own, Client.requestID
CounterOf(s) == s

\* Every session has just been returned by Connect: requestID is zero.
IdInit ==
    /\ SessionInit
    /\ connecting = Off
    /\ codec = Off
    /\ sessions = [pc |-> "on",
                   requestID |-> [s \in Sessions |-> 0],
                   issued |-> [s \in Sessions |-> <<>>],
                   got |-> [c \in Callers |-> <<0, <<>>>>]]
    /\ writer = Off
    /\ stream = Off
    /\ locking = Off
    /\ consumer = Off
    /\ cache = Off
    /\ builder = Off

\* nextID on session s, called by c: fmt.Sprintf("%d", c.requestID.Add(1)).
\* The Add is atomic and returns the new value.  issued and got remember the
\* ids handed out.
nextID(c, s) ==
    /\ sessions.requestID[CounterOf(s)] < MaxIssued
    /\ Len(sessions.issued[s]) < MaxIssued
    /\ sessions' = [sessions EXCEPT
                      !.requestID[CounterOf(s)] = @ + 1,
                      !.issued[s] = Append(@, Sprintf_d(sessions.requestID[CounterOf(s)] + 1)),
                      !.got[c] = <<s, Sprintf_d(sessions.requestID[CounterOf(s)] + 1)>>]
    /\ UNCHANGED <<vars, connecting, codec, writer, stream, locking, consumer,
                   cache, builder>>

IdNext == \E c \in Callers, s \in Sessions : nextID(c, s)

IdSpec == IdInit /\ [][IdNext]_allVars

\* C14: the ids a session has issued are pairwise different and increase in
\* the order of issue; two callers never hold the same id of one session; a
\* session's k-th id is the decimal of k, whatever the other sessions did; and
\* issuing an id on one session changes neither the counter nor the ids of
\* another.
C14_IdsUniquePerSession ==
    /\ [](\A s \in Sessions :
            /\ \A i, j \in 1..Len(sessions.issued[s]) :
                 i < j => /\ sessions.issued[s][i] # sessions.issued[s][j]
                          /\ Atoi(sessions.issued[s][i]) < Atoi(sessions.issued[s][j])
            /\ \A k \in 1..Len(sessions.issued[s]) :
                 sessions.issued[s][k] = Sprintf_d(k))
    /\ [](\A c, d \in Callers :
            (c # d /\ sessions.got[c][1] # 0) => sessions.got[c] # sessions.got[d])
    /\ [][\A s, t \in Sessions :
            (s # t /\ sessions'.issued[s] # sessions.issued[s]) =>
               /\ sessions'.issued[t] = sessions.issued[t]
               /\ sessions'.requestID[t] = sessions.requestID[t]]_allVars

\* Two callers hold ids of the same session, one of them of two digits, while
\* the other session has issued fewer ids.
C14_Witness ==
    \E c, d \in Callers, s, t \in Sessions :
      /\ c # d
      /\ sessions.got[c] = <<s, <<"1", "0">>>>
      /\ sessions.got[d] = <<s, <<"9">>>>
      /\ Len(sessions.issued[t]) = 3

\* ============================================================ writer lock
\* bounds
MaxWrites == 3       \* frames callers write on the session

\* The goroutine that runs Connect, as a holder of locks.
ConnectCaller == NumCallers + 1

\* The write side of a session from Connect's handshake on.  A conn.Write is
\* in progress from its first bytes to its last: the wire records both, as
\* <<writer, frame, 1>> and <<writer, frame, 2>>.
\*   hs        Connect's handshake write: "start", "writing", "done"
\*   session   Connect has returned the Client
\*   writeMu   the holder of Client.writeMu, 0 when it is free
\*   at        per caller, its position in send or Unsubscribe
\*   kind      per caller, which of the two it is in
\*   cur       per caller, the frame it is writing
\*   n         frames callers have started to write
WriterInit ==
    /\ SessionInit
    /\ connecting = Off
    /\ codec = Off
    /\ sessions = Off
    /\ writer = [pc |-> "on", hs |-> "start", session |-> FALSE, writeMu |-> 0,
                 at |-> [c \in Callers |-> "idle"],
                 kind |-> [c \in Callers |-> "none"],
                 cur |-> [c \in Callers |-> 0],
                 n |-> 0, wire |-> <<>>]
    /\ stream = Off
    /\ locking = Off
    /\ consumer = Off
    /\ cache = Off
    /\ builder = Off

WriterRest == <<vars, connecting, codec, sessions, stream,
    locking, consumer, cache, builder>>

\* handshake: c.conn.Write(handshake) starts; writeMu is not taken
handshake_WriteBegin ==
    /\ writer.hs = "start"
    /\ writer' = [writer EXCEPT !.hs = "writing",
                                !.wire = Append(@, <<ConnectCaller, 0, 1>>)]
    /\ UNCHANGED WriterRest

\* handshake: c.conn.Write(handshake) returns
handshake_WriteEnd ==
    /\ writer.hs = "writing"
    /\ writer' = [writer EXCEPT !.hs = "done",
                                !.wire = Append(@, <<ConnectCaller, 0, 2>>)]
    /\ UNCHANGED WriterRest

\* Connect: return c, nil: from here on callers have the Client
Connect_returns ==
    /\ writer.hs = "done"
    /\ ~writer.session
    /\ writer' = [writer EXCEPT !.session = TRUE]
    /\ UNCHANGED WriterRest

\* A caller enters send (k = "send") or Subscription.Unsubscribe
\* (k = "unsubscribe") and comes to the write of its frame.
write_enter(c, k) ==
    /\ writer.session
    /\ writer.at[c] = "idle"
    /\ writer.n < MaxWrites
    /\ writer' = [writer EXCEPT !.at[c] = "lock", !.kind[c] = k]
    /\ UNCHANGED WriterRest

\* A lock that lets everyone in.
writeMu_Lock_NoWait(c) ==
    /\ writer.at[c] = "lock"
    /\ writer' = [writer EXCEPT !.at[c] = "write", !.writeMu = c]
    /\ UNCHANGED WriterRest

\* send, Unsubscribe: c.writeMu.Lock()
writeMu_Lock(c) ==
    /\ writer.at[c] = "lock"
    /\ writer.writeMu = 0
    /\ writer' = [writer EXCEPT !.at[c] = "write", !.writeMu = c]
    /\ UNCHANGED WriterRest

\* send, Unsubscribe: c.conn.Write(frame) starts
conn_WriteBegin(c) ==
    /\ writer.at[c] = "write"
    /\ writer' = [writer EXCEPT !.at[c] = "writing", !.n = @ + 1,
                                !.cur[c] = writer.n + 1,
                                !.wire = Append(@, <<c, writer.n + 1, 1>>)]
    /\ UNCHANGED WriterRest

\* send, Unsubscribe: c.conn.Write(frame) returns
conn_WriteEnd(c) ==
    /\ writer.at[c] = "writing"
    /\ writer' = [writer EXCEPT !.at[c] = "unlock",
                                !.wire = Append(@, <<c, writer.cur[c], 2>>)]
    /\ UNCHANGED WriterRest

\* send, Unsubscribe: c.writeMu.Unlock()
writeMu_Unlock(c) ==
    /\ writer.at[c] = "unlock"
    /\ writer' = [writer EXCEPT !.at[c] = "idle", !.kind[c] = "none",
                                !.cur[c] = 0,
                                !.writeMu = IF @ = c THEN 0 ELSE @]
    /\ UNCHANGED WriterRest

WriterNext ==
    \/ handshake_WriteBegin
    \/ handshake_WriteEnd
    \/ Connect_returns
    \/ \E c \in Callers, k \in {"send", "unsubscribe"} : write_enter(c, k)
    \/ \E c \in Callers : writeMu_Lock(c)
    \/ \E c \in Callers : conn_WriteBegin(c)
    \/ \E c \in Callers : conn_WriteEnd(c)
    \/ \E c \in Callers : writeMu_Unlock(c)

WriterSpec == WriterInit /\ [][WriterNext]_allVars

\* The goroutines with a conn.Write in progress.
WritesInProgress ==
    {c \in Callers : writer.at[c] = "writing"}
      \cup (IF writer.hs = "writing" THEN {ConnectCaller} ELSE {})

\* On the wire the first bytes of a frame are followed by its last bytes.
WireWhole ==
    \A k \in 1..Len(writer.wire) :
      /\ writer.wire[k][3] = 1 =>
           \/ k = Len(writer.wire) /\ writer.wire[k][1] \in WritesInProgress
           \/ /\ k < Len(writer.wire)
              /\ writer.wire[k + 1] = <<writer.wire[k][1], writer.wire[k][2], 2>>
      /\ writer.wire[k][3] = 2 =>
           (k > 1 /\ writer.wire[k - 1] = <<writer.wire[k][1], writer.wire[k][2], 1>>)

MaxPayload == 2      \* length of the payloads enumerated byte by byte

\* Byte strings: every one over the bytes B up to n bytes long.
RECURSIVE BytesUpTo(_, _)
BytesUpTo(n, B) ==
    IF n = 0 THEN {<<>>}
    ELSE BytesUpTo(n - 1, B)
           \cup {Append(p, b) : p \in {q \in BytesUpTo(n - 1, B) : Len(q) = n - 1},
                                b \in B}

\* A long argument is written by its first bytes and the number of bytes that
\* follow them, which are 1, 2, ..., 250, 0, 1, ...
Pattern(n) == [i \in 1..n |-> i % 251]

Arg(first, more) == first \o Pattern(more)

\* Payloads: the short ones byte by byte, and payloads of 254, 256 and 65534
\* bytes (with the two header bytes the length then needs a second and a
\* third byte).
Payloads ==
    {<<p, 0>> : p \in BytesUpTo(MaxPayload, {0, 255})}
      \cup {<<<<>>, 254>>, <<<<0, 255>>, 254>>, <<<<>>, 65534>>}

\* Message types and encodings: the protocol's, and bytes that are none of them.
MsgTypes == {MessageTypeRequest, MessageTypeResponse, MessageTypeNotification, 255}

Encodings == {EncodingMessagePack, EncodingJSON, 0}

AllFlags == [MessagePack : BOOLEAN, JSONFallback : BOOLEAN]

\* Auth tokens: the short ones, and tokens of 255, 256, 65535 and 65536
\* bytes.
LongTokens ==
    {<<t, 0>> : t \in Tokens}
      \cup {<<t, n>> : t \in {<<>>, <<116>>}, n \in {255, 65535}}

\* Buffers handed to ParseHandshakeResponse: whole answers, answers with
\* other flag bytes, an answer with a byte too many, and answers cut short.
ResponseData ==
    Responses
      \cup {<<0, 1, f>> \o id : f \in {4, 255}, id \in SessionIDs}
      \cup {Append(r, 9) : r \in {<<0, 1, 3>> \o id : id \in SessionIDs}}
      \cup {SubSeq(<<0, 1, 3>> \o id, 1, n) : n \in {0, 1, 3, 18}, id \in SessionIDs}

\* A call about to be made: the function, and its arguments.
NewCall(fn) ==
    [pc |-> "call", fn |-> fn, payload |-> <<>>, more |-> 0, msgType |-> 0,
     encoding |-> 0, flags |-> FlagsFromByte(0), byte |-> 0, token |-> <<>>,
     data |-> <<>>, buf |-> <<>>, hdr |-> <<>>, resp |-> <<>>]

CodecCalls ==
    {[NewCall("frame") EXCEPT !.payload = p[1], !.more = p[2], !.msgType = t,
                              !.encoding = e] :
        p \in Payloads, t \in MsgTypes, e \in Encodings}
      \cup {[NewCall("flags") EXCEPT !.flags = f] : f \in AllFlags}
      \cup {[NewCall("byte") EXCEPT !.byte = b] : b \in 0..255}
      \cup {[NewCall("handshake") EXCEPT !.token = t[1], !.more = t[2], !.flags = f] :
              t \in LongTokens, f \in AllFlags}
      \cup {[NewCall("response") EXCEPT !.data = d] : d \in ResponseData}

CodecInit ==
    /\ SessionInit
    /\ connecting = Off
    /\ codec \in CodecCalls
    /\ sessions = Off
    /\ writer = Off
    /\ stream = Off
    /\ locking = Off
    /\ consumer = Off
    /\ cache = Off
    /\ builder = Off

CodecRest == <<vars, connecting, sessions, writer, stream,
    locking, consumer, cache, builder>>

\* buf := BuildFrame(msgType, encoding, payload)
Call_BuildFrame ==
    /\ codec.pc = "call"
    /\ codec.fn = "frame"
    /\ codec' = [codec EXCEPT !.pc = "built",
                              !.buf = BuildFrame(codec.msgType, codec.encoding,
                                                 Arg(codec.payload, codec.more))]
    /\ UNCHANGED CodecRest

\* hdr, err := ParseFrameHeader(buf[:6])
Call_ParseFrameHeader ==
    /\ codec.pc = "built"
    /\ codec.fn = "frame"
    /\ codec' = [codec EXCEPT !.pc = "done",
                              !.hdr = <<ParseFrameHeader(SubSeq(codec.buf, 1, 6))>>]
    /\ UNCHANGED CodecRest

\* b := flags.ToByte(), of the flags given or of the flags just decoded
Call_ToByte ==
    /\ \/ codec.fn = "flags" /\ codec.pc = "call"
       \/ codec.fn = "byte" /\ codec.pc = "built"
    /\ codec' = [codec EXCEPT !.pc = IF codec.fn = "flags" THEN "built" ELSE "done",
                              !.buf = <<ToByte(codec.flags)>>]
    /\ UNCHANGED CodecRest

\* flags := FlagsFromByte(b), of the byte given or of the byte just encoded
Call_FlagsFromByte ==
    /\ \/ codec.fn = "byte" /\ codec.pc = "call"
       \/ codec.fn = "flags" /\ codec.pc = "built"
    /\ codec' = [codec EXCEPT
                   !.pc = IF codec.fn = "byte" THEN "built" ELSE "done",
                   !.hdr = <<FlagsFromByte(IF codec.fn = "byte" THEN codec.byte
                                           ELSE codec.buf[1])>>,
                   !.flags = IF codec.fn = "byte" THEN FlagsFromByte(codec.byte)
                             ELSE codec.flags]
    /\ UNCHANGED CodecRest

\* buf := BuildHandshake(token, flags)
Call_BuildHandshake ==
    /\ codec.pc = "call"
    /\ codec.fn = "handshake"
    /\ codec' = [codec EXCEPT !.pc = "done",
                              !.buf = BuildHandshake(Arg(codec.token, codec.more),
                                                     codec.flags)]
    /\ UNCHANGED CodecRest

\* resp, err := ParseHandshakeResponse(data)
Call_ParseHandshakeResponse ==
    /\ codec.pc = "call"
    /\ codec.fn = "response"
    /\ codec' = [codec EXCEPT !.pc = "done",
                              !.resp = <<ParseHandshakeResponse(codec.data)>>]
    /\ UNCHANGED CodecRest

CodecNext ==
    \/ Call_BuildFrame
    \/ Call_ParseFrameHeader
    \/ Call_ToByte
    \/ Call_FlagsFromByte
    \/ Call_BuildHandshake
    \/ Call_ParseHandshakeResponse

CodecSpec == CodecInit /\ [][CodecNext]_allVars

\* C16: BuildFrame(T, E, P) is 6 + len(P) bytes, its first 4 bytes are
\* len(P) + 2 in big-endian and the bytes after the first 6 are P; and
\* ParseFrameHeader of its first 6 bytes gives payload length len(P), type T
\* and encoding E.
C16_FrameRoundTrip ==
    codec.fn = "frame" =>
      /\ codec.pc \in {"built", "done"} =>
           /\ Len(codec.buf) = 6 + Len(codec.payload) + codec.more
           /\ \A k \in 1..4 : codec.buf[k] \in 0..255
           /\ codec.buf[1] * 16777216 + codec.buf[2] * 65536
                + codec.buf[3] * 256 + codec.buf[4]
                = Len(codec.payload) + codec.more + 2
           /\ SubSeq(codec.buf, 7, Len(codec.buf)) = Arg(codec.payload, codec.more)
      /\ codec.pc = "done" =>
           /\ codec.hdr[1].err = "nil"
           /\ codec.hdr[1].PayloadLength[1] * 65536 + codec.hdr[1].PayloadLength[2]
                = Len(codec.payload) + codec.more
           /\ codec.hdr[1].MsgType = codec.msgType
           /\ codec.hdr[1].Encoding = codec.encoding

\* The frame of a payload of 256 bytes, of a type that is none of the
\* protocol's, went through both functions.
C16_Witness ==
    /\ codec.fn = "frame"
    /\ codec.pc = "done"
    /\ Len(codec.payload) + codec.more = 256
    /\ codec.msgType = 255

\* C17: ToByte gives a byte from 0 to 3 with bit0 the MessagePack flag and
\* bit1 the JSON-fallback flag; FlagsFromByte of it gives the flags back; and
\* ToByte of FlagsFromByte of a byte from 0 to 3 gives the byte back (of any
\* byte, a byte from 0 to 3).
C17_FlagsRoundTrip ==
    /\ (codec.fn = "flags" /\ codec.pc \in {"built", "done"}) =>
         /\ codec.buf[1] \in 0..3
         /\ (codec.buf[1] % 2 = 1) <=> codec.flags.MessagePack
         /\ ((codec.buf[1] \div 2) % 2 = 1) <=> codec.flags.JSONFallback
    /\ (codec.fn = "flags" /\ codec.pc = "done") => codec.hdr[1] = codec.flags
    /\ (codec.fn = "byte" /\ codec.pc = "done") =>
         /\ codec.buf[1] \in 0..3
         /\ codec.byte \in 0..3 => codec.buf[1] = codec.byte

\* The flags with MessagePack alone set went through both functions.
C17_Witness ==
    /\ codec.fn = "flags"
    /\ codec.pc = "done"
    /\ codec.flags.MessagePack
    /\ ~codec.flags.JSONFallback

\* C18, as stated: BuildHandshake(token, flags) is 8 + len(token) bytes:
\* 'SQRL', the version 1, the flags byte, len(token) in 2 bytes big-endian,
\* the token.
C18_HandshakeLayout ==
    (codec.fn = "handshake" /\ codec.pc = "done") =>
      /\ Len(codec.buf) = 8 + Len(codec.token) + codec.more
      /\ SubSeq(codec.buf, 1, 4) = <<83, 81, 82, 76>>
      /\ codec.buf[5] = 1
      /\ codec.buf[6] = (IF codec.flags.MessagePack THEN 1 ELSE 0)
                          + (IF codec.flags.JSONFallback THEN 2 ELSE 0)
      /\ codec.buf[7] * 256 + codec.buf[8] = Len(codec.token) + codec.more
      /\ SubSeq(codec.buf, 9, Len(codec.buf)) = Arg(codec.token, codec.more)

\* C19: ParseHandshakeResponse fails on fewer than 19 bytes and on 19 or more
\* returns byte 0 as the status, byte 1 as the version, bits 0 and 1 of byte 2
\* as the flags and bytes 3 to 18 as the session identifier, whatever the
\* status and the version are.
C19_ParseHandshakeResponse ==
    (codec.fn = "response" /\ codec.pc = "done") =>
      IF Len(codec.data) < 19
        THEN codec.resp[1].err = "too short"
        ELSE /\ codec.resp[1].err = "nil"
             /\ codec.resp[1].Status = codec.data[1]
             /\ codec.resp[1].Version = codec.data[2]
             /\ codec.resp[1].Flags.MessagePack <=> (codec.data[3] % 2 = 1)
             /\ codec.resp[1].Flags.JSONFallback <=> ((codec.data[3] \div 2) % 2 = 1)
             /\ Len(codec.resp[1].SessionID) = 16
             /\ \A k \in 1..16 : codec.resp[1].SessionID[k] = codec.data[3 + k]

\* An answer with status 255 and version 2 was parsed.
C19_Witness ==
    /\ codec.fn = "response"
    /\ codec.pc = "done"
    /\ Len(codec.data) = 19
    /\ codec.data[1] = 255
    /\ codec.data[2] = 2
    /\ codec.resp[1].err = "nil"

\* ================================================ framing in the read loop
\* bounds
MaxSends == 3        \* frames the server writes to the stream

\* DecodeMessage: the inverse of EncodeMessage; <<>> stands for an error.  An
\* encoding byte other than MessagePack's is taken for JSON.
DecodeMessage(data, encoding) ==
    IF /\ Len(data) = 2
       /\ data[1] = (IF encoding = EncodingMessagePack THEN 130 ELSE 123)
      THEN <<data[2]>>
      ELSE <<>>

\* What a server can write as one frame: a reply in either encoding, a frame
\* whose payload does not decode, a header that declares the length 0 or 1,
\* and a header that declares more than the maximum.
ServerFrames ==
    {BuildFrame(MessageTypeResponse, e, EncodeMessage(m, e)) :
        e \in {EncodingMessagePack, EncodingJSON}, m \in {1, 2}}
      \cup {BuildFrame(MessageTypeResponse, EncodingJSON, <<0, 0>>)}
      \cup {PutUint32(U32Of(n)) \o <<MessageTypeResponse, EncodingJSON>> : n \in {0, 1}}
      \cup {PutUint32(U32Of(MaxMessageSize + 3)) \o <<MessageTypeResponse, EncodingJSON>>}

\* The read side of a session whose read loop has just been started.
\*   rpc         the read loop: "hdr" (reading a header), "pay" (reading a
\*               payload), "stopped"
\*   bytes       the bytes the server has written and the loop has not read
\*   open        the server has not closed the stream
\*   sent        frames the server has written
\*   hdr         the header whose payload is being read
\*   log         per header read: the length it declared, the payload length
\*               parsed from it, whether a payload read was started for it, and
\*               the message dispatched for it; at is the offset in the stream
\*               of the first byte of the header
\*   pos         bytes the loop has read
\*   starts      the offsets in the stream at which the server began a frame
\*   inflight    the server is in the middle of a frame: the rest of its
\*               payload has not reached the client yet
StreamInit ==
    /\ SessionInit
    /\ connecting = Off
    /\ codec = Off
    /\ sessions = Off
    /\ writer = Off
    /\ locking = Off
    /\ consumer = Off
    /\ cache = Off
    /\ builder = Off
    /\ stream = [pc |-> "on", rpc |-> "hdr", bytes |-> <<>>, open |-> TRUE,
                 sent |-> 0, hdr |-> <<>>, log |-> <<>>,
                 pos |-> 0, starts |-> {}, inflight |-> FALSE]

StreamRest == <<vars, connecting, codec, sessions, writer,
    locking, consumer, cache, builder>>

\* The offset in the stream of the next byte the server writes.
StreamEnd == stream.pos + Len(stream.bytes)

\* The server writes a frame.
server_write(f) ==
    /\ stream.open
    /\ ~stream.inflight
    /\ stream.sent < MaxSends
    /\ stream' = [stream EXCEPT !.bytes = @ \o f, !.sent = @ + 1,
                                !.starts = @ \cup {StreamEnd}]
    /\ UNCHANGED StreamRest

\* The declared lengths around the maximum.
LargeLengths == {MaxMessageSize + k : k \in 0..3}

\* The first bytes of the payload of a large frame: whatever the sender put
\* there, here bytes that read like a small frame.
LargePayloadHead == BuildFrame(MessageTypeResponse, EncodingJSON, EncodeMessage(2, EncodingJSON))

\* The server writes a frame that declares the length n, a payload of n - 2
\* bytes: its header and the first bytes of its payload have reached the
\* client, the rest is on its way.
server_writeLarge(n) ==
    /\ stream.open
    /\ ~stream.inflight
    /\ stream.sent < MaxSends
    /\ stream' = [stream EXCEPT
                    !.bytes = @ \o PutUint32(U32Of(n))
                                \o <<MessageTypeResponse, EncodingJSON>>
                                \o LargePayloadHead,
                    !.sent = @ + 1,
                    !.starts = @ \cup {StreamEnd},
                    !.inflight = TRUE]
    /\ UNCHANGED StreamRest

\* The server closes the stream.
server_close ==
    /\ stream.open
    /\ stream' = [stream EXCEPT !.open = FALSE]
    /\ UNCHANGED StreamRest

\* A loop without the size check.
TooLarge_Never(h) == FALSE

\* A loop whose limit is one byte short.
TooLarge_AtLimit(h) == U32Gt(h.PayloadLength, MaxMessageSize - 1)

\* receiveLoop: frameHeader.PayloadLength > MaxMessageSize
TooLarge(h) == U32Gt(h.PayloadLength, MaxMessageSize)

\* receiveLoop: io.ReadFull(c.reader, header) returns 6 bytes;
\* ParseFrameHeader; a header that does not parse or whose payload length is
\* above the maximum is skipped (continue); else the payload buffer is made
\* and its read starts
receiveLoop_header ==
    /\ stream.rpc = "hdr"
    /\ Len(stream.bytes) >= 6
    /\ LET h == ParseFrameHeader(SubSeq(stream.bytes, 1, 6))
           entry == [declared |-> Uint32(SubSeq(stream.bytes, 1, 4)),
                     size |-> h.PayloadLength, read |-> FALSE, msg |-> <<>>,
                     at |-> stream.pos]
       IN IF h.err # "nil" \/ TooLarge(h)
            THEN stream' = [stream EXCEPT
                              !.bytes = SubSeq(@, 7, Len(@)),
                              !.pos = @ + 6,
                              !.log = Append(@, entry)]
            ELSE stream' = [stream EXCEPT
                              !.bytes = SubSeq(@, 7, Len(@)),
                              !.pos = @ + 6,
                              !.rpc = "pay", !.hdr = <<h>>,
                              !.log = Append(@, [entry EXCEPT !.read = TRUE])]
    /\ UNCHANGED StreamRest

\* receiveLoop: io.ReadFull(c.reader, payload) returns the payload;
\* DecodeMessage; a payload that does not decode is skipped (continue); else
\* c.dispatchMessage(&msg)
receiveLoop_payload ==
    /\ stream.rpc = "pay"
    /\ stream.hdr[1].PayloadLength[1] = 0
    /\ Len(stream.bytes) >= stream.hdr[1].PayloadLength[2]
    /\ LET n == stream.hdr[1].PayloadLength[2]
           msg == DecodeMessage(SubSeq(stream.bytes, 1, n), stream.hdr[1].Encoding)
       IN stream' = [stream EXCEPT
                       !.bytes = SubSeq(@, n + 1, Len(@)),
                       !.pos = @ + n,
                       !.rpc = "hdr", !.hdr = <<>>,
                       !.log[Len(stream.log)].msg = msg]
    /\ UNCHANGED StreamRest

\* The bytes a read of the loop is waiting for.
Wanted ==
    IF stream.rpc = "hdr" THEN U32Of(6) ELSE stream.hdr[1].PayloadLength

\* receiveLoop: io.ReadFull returns an error (the stream ended before the
\* bytes wanted came); handleDisconnect; return
receiveLoop_readFail ==
    /\ stream.rpc \in {"hdr", "pay"}
    /\ ~stream.open
    /\ U32Gt(Wanted, Len(stream.bytes))
    /\ stream' = [stream EXCEPT !.rpc = "stopped", !.bytes = <<>>, !.hdr = <<>>]
    /\ UNCHANGED StreamRest

StreamNext ==
    \/ \E f \in ServerFrames : server_write(f)
    \/ \E n \in LargeLengths : server_writeLarge(n)
    \/ server_close
    \/ receiveLoop_header
    \/ receiveLoop_payload
    \/ receiveLoop_readFail

StreamSpec == StreamInit /\ [][StreamNext]_allVars

\* C20: a payload read is started only for a header that declares 2 or more,
\* and its size is the declared length minus 2; for a header that declares 0
\* or 1 no payload read is started, no payload buffer of the wrapped-around
\* length is asked for, and no message is dispatched.
C20_ShortLengthRejected ==
    /\ \A k \in 1..Len(stream.log) :
         /\ stream.log[k].read =>
              /\ U32Gt(stream.log[k].declared, 1)
              /\ stream.log[k].size[1] * 65536 + stream.log[k].size[2]
                   = stream.log[k].declared[1] * 65536 + stream.log[k].declared[2] - 2
         /\ ~U32Gt(stream.log[k].declared, 1) =>
              /\ ~stream.log[k].read
              /\ stream.log[k].msg = <<>>
    /\ stream.rpc = "pay" => stream.log[Len(stream.log)].read

\* The loop has met a header declaring 0 and one declaring 1 and, after
\* them, has dispatched a reply.
C20_Witness ==
    \E i, j, k \in 1..Len(stream.log) :
      /\ i < k /\ j < k
      /\ stream.log[i].declared = U32Of(0)
      /\ stream.log[j].declared = U32Of(1)
      /\ stream.log[k].msg # <<>>

\* ============================================= claims on the session engine
\* C21: a Ping call returns nil exactly when the reply it got from send has
\* the type "pong"; the reply it got carries the id of its own request; a
\* reply of any other type makes it return the protocol error naming that
\* type; a Ping that got no reply returned the closed error or the error of
\* its write; and a Ping whose send finds the closed flag set returns the
\* closed error at once.
C21_PingOutcome ==
    /\ [](\A c \in Callers :
            (op[c] = "ping" /\ pc[c] = "idle") =>
              /\ result[c].err = "nil" <=> result[c].resp.Type = "pong"
              /\ result[c].resp # NoMsg => result[c].resp.ID = cid[c]
              /\ (result[c].resp # NoMsg /\ result[c].resp.Type # "pong") =>
                   /\ result[c].err = "protocol"
                   /\ result[c].text = result[c].resp.Type
              /\ result[c].resp = NoMsg => result[c] \in {ErrClosed, SendErr})
    /\ [][\A c \in Callers :
            (closed /\ pc[c] = "idle" /\ op'[c] = "ping" /\ cid'[c] # cid[c])
              => (pc'[c] = "idle" /\ result'[c] = ErrClosed)]_vars

\* One Ping got a pong and returned nil, another got an error envelope and
\* returned the protocol error.
C21_Witness ==
    \E c, d \in Callers :
      /\ op[c] = "ping" /\ pc[c] = "idle" /\ result[c].err = "nil"
      /\ result[c].resp.Type = "pong"
      /\ op[d] = "ping" /\ pc[d] = "idle" /\ result[d].err = "protocol"
      /\ result[d].resp.Type = "error"

\* C23, as stated: once the read loop has stopped after a fatal read error,
\* the closed flag is true and the pending table is empty.
C23_FatalMarksClosed ==
    (rl.pc = "stopped" /\ hist.fatal) =>
      /\ closed
      /\ \A i \in IDs : pending[i] = 0

\* C24, as stated: once the session has ended (Close has swapped the flag or
\* the read loop met a fatal read error) and the read loop has exited, the
\* pending table is empty, every slot that was made has been resolved (a
\* reply was sent into it or it was closed), and in any case a call that went
\* through send and has returned has no entry of its own in the table.
C24_NoPendingLeak ==
    /\ (rl.pc = "stopped" /\ (closed \/ hist.fatal)) =>
         \A i \in IDs :
           /\ pending[i] = 0
           /\ respCh[i].made => respCh[i].sends + respCh[i].closes >= 1
    /\ \A c \in Callers :
         (pc[c] = "idle" /\ op[c] \in {"query", "subscribe", "ping"})
           => pending[cid[c]] = 0

\* The state of the session that callers and consumers can see.
SessionState == <<pending, respCh, subscriptions, changes, closed, closedCh,
                  pc, result, panicked>>

\* C26: the step of the read loop that finds the payload of a frame
\* undecodable leaves the pending table, every slot, the registry, every
\* queue, the closed flag and every caller as they were and takes the loop
\* back to the head of the loop, where it reads the next frame; no handling of
\* a disconnect follows from it.
C26_BadPayloadSkipped ==
    /\ [][(rl.pc = "pay" /\ rl.cur = Junk /\ rl' # rl /\ conn = "open")
            => (/\ rl' = [pc |-> "top", cur |-> NoMsg, ch |-> 0]
                /\ UNCHANGED SessionState)]_vars
    /\ [](rl.cur = Junk => rl.pc = "pay")

\* The first frame of the session was undecodable and was skipped (one call
\* has been issued, two frames have been read, none was a stray notification
\* and nothing had been put into the call's slot); the second frame, the
\* reply to the waiting call, has been matched to its entry and is being
\* handed over.
C26_Witness ==
    /\ requestID = 1
    /\ nFrames = 2
    /\ ~hist.stray
    /\ rl.pc = "deliver" /\ rl.cur.ID = 1 /\ rl.ch = 1
    /\ respCh[1].sends = 0
    /\ hist.remover[1] = "dispatch"
    /\ \E c \in Callers : cid[c] = 1 /\ pc[c] = "send_wait"

\* C28: the step of dispatchMessage that finds no pending entry for the id of
\* an envelope that is not a change notification leaves the pending table,
\* every slot, the registry, every queue, the closed flag and every caller as
\* they were, and takes the read loop back to the head of the loop.
C28_UnmatchedReplyDiscarded ==
    [][(/\ rl.pc = "dispatch"
        /\ ~IsChange(rl.cur)
        /\ pending[rl.cur.ID] = 0
        /\ rl' # rl)
         => (/\ rl' = [pc |-> "top", cur |-> NoMsg, ch |-> 0]
             /\ UNCHANGED SessionState)]_vars

\* A second reply for an id whose reply has been delivered is at the lookup
\* while another call has its entry in the table.
C28_Witness ==
    /\ rl.pc = "dispatch"
    /\ ~IsChange(rl.cur)
    /\ pending[rl.cur.ID] = 0
    /\ respCh[rl.cur.ID].sends = 1
    /\ \E j \in IDs : pending[j] # 0 /\ j \in written

\* C29: a request frame the server has received belongs to a call whose
\* entry had been inserted (its slot made) before the write, so every reply
\* the read loop holds is for an id whose entry has existed; and a call whose
\* write fails removes its own entry and nothing else and returns the send
\* error, after which its id has no entry.
C29_RegisterBeforeWrite ==
    /\ [](\A i \in written : respCh[i].made)
    /\ []((rl.pc \in {"pay", "dispatch", "deliver"} /\ rl.cur # Junk /\ ~IsChange(rl.cur))
            => respCh[rl.cur.ID].made)
    /\ [](\A c \in Callers :
            (pc[c] = "send_write" /\ ~panicked) => respCh[cid[c]].made)
    /\ [](\A c \in Callers :
            (pc[c] = "idle" /\ result[c] = SendErr) =>
              /\ pending[cid[c]] = 0
              /\ cid[c] \notin written)
    /\ [][\A c \in Callers :
            (pc[c] = "send_werr" /\ pc'[c] # "send_werr") =>
              /\ pending' = [pending EXCEPT ![cid[c]] = 0]
              /\ result'[c] = SendErr
              /\ respCh' = respCh]_vars

\* A call whose write failed has removed its own entry and returned the send
\* error, while the reply to another call was delivered.
C29_Witness ==
    \E c, d \in Callers :
      /\ pc[c] = "idle" /\ result[c] = SendErr
      /\ hist.remover[cid[c]] = "send"
      /\ pc[d] = "idle" /\ result[d].err = "nil" /\ op[d] = "query"

\* C25, as stated: a payload read is started for a header exactly when the
\* length it declares is at least 2 and at most the maximum message size.
C25_LimitOnDeclaredLength ==
    \A k \in 1..Len(stream.log) :
      stream.log[k].read <=>
        (U32Gt(stream.log[k].declared, 1)
           /\ ~U32Gt(stream.log[k].declared, MaxMessageSize))

\* C25, amended: a payload read is started for a header exactly when the
\* payload length parsed from it, the declared length minus 2, is at most the
\* maximum message size: the declared length is at least 2 and at most the
\* maximum plus 2; a payload that has been read and decodes is dispatched.
C25_LimitOnPayloadLength ==
    \A k \in 1..Len(stream.log) :
      /\ stream.log[k].read <=>
           (U32Gt(stream.log[k].declared, 1)
              /\ ~U32Gt(stream.log[k].declared, MaxMessageSize + 2))
      /\ stream.log[k].read <=> ~U32Gt(stream.log[k].size, MaxMessageSize)
      /\ stream.log[k].msg # <<>> => stream.log[k].read

\* The loop has skipped a header declaring the maximum plus 3 and has started
\* the payload read of a frame declaring the maximum plus 2.
C25_Witness ==
    \E i, j \in 1..Len(stream.log) :
      /\ stream.log[i].declared = U32Of(MaxMessageSize + 3)
      /\ ~stream.log[i].read
      /\ stream.log[j].declared = U32Of(MaxMessageSize + 2)
      /\ stream.log[j].read

\* C27, as stated: every header the read loop parses is at the first byte of
\* a frame the server sent, and a message is dispatched only from such a
\* frame.
C27_StaysAligned ==
    \A k \in 1..Len(stream.log) : stream.log[k].at \in stream.starts

\* Without a frame above the limit the loop is aligned: when no header has
\* been skipped for its size, every header parsed is at the first byte of a
\* frame the server sent.
AlignedUntilOversized ==
    (\A k \in 1..Len(stream.log) : ~U32Gt(stream.log[k].size, MaxMessageSize))
      => C27_StaysAligned

\* ================================================ Subscription.Unsubscribe
\* The error of conn.Write, as Unsubscribe returns it.
WriteErr == [err |-> "write", text |-> "", resp |-> NoMsg]

\* An Unsubscribe that leaves the registry entry in place.
Unsubscribe_NoDelete(c, i) ==
    /\ ~panicked
    /\ pc[c] = "idle"
    /\ changes[i].made
    /\ op' = [op EXCEPT ![c] = "unsubscribe"]
    /\ cid' = [cid EXCEPT ![c] = i]
    /\ pc' = [pc EXCEPT ![c] = "unsub_close"]
    /\ result' = [result EXCEPT ![c] = NoResult]
    /\ hist' = [hist EXCEPT !.started[c] = "none",
                            !.tearer = IF @ = c THEN 0 ELSE @]
    /\ UNCHANGED <<requestID, pendVars, subVars, flagVars, conn, ctxDone, rl,
                   srvVars, panicked>>
    /\ UNCHANGED partVars

\* Unsubscribe, called on the handle Subscribe returned for id i:
\* delete(s.client.subscriptions, s.ID) under subMu
Unsubscribe(c, i) ==
    /\ ~panicked
    /\ pc[c] = "idle"
    /\ changes[i].made
    /\ subscriptions' = [subscriptions EXCEPT ![i] = 0]
    /\ op' = [op EXCEPT ![c] = "unsubscribe"]
    /\ cid' = [cid EXCEPT ![c] = i]
    /\ pc' = [pc EXCEPT ![c] = "unsub_close"]
    /\ result' = [result EXCEPT ![c] = NoResult]
    /\ hist' = [hist EXCEPT !.started[c] = "none",
                            !.tearer = IF @ = c THEN 0 ELSE @]
    /\ UNCHANGED <<requestID, pendVars, changes, flagVars, conn, ctxDone, rl,
                   srvVars, panicked>>
    /\ UNCHANGED partVars

\* Unsubscribe: close(s.changes), outside subMu.  Closing a closed channel
\* panics.
Unsubscribe_close(c) ==
    /\ ~panicked
    /\ pc[c] = "unsub_close"
    /\ IF changes[cid[c]].shut
         THEN /\ panicked' = TRUE
              /\ UNCHANGED <<changes, pc>>
         ELSE /\ changes' = [changes EXCEPT ![cid[c]] = CloseQueue(@)]
              /\ pc' = [pc EXCEPT ![c] = "unsub_write"]
              /\ UNCHANGED panicked
    /\ UNCHANGED <<requestID, pendVars, subscriptions, flagVars, conn, op, cid,
                   result, ctxDone, rl, srvVars, hist>>
    /\ UNCHANGED partVars

\* Unsubscribe: the envelope {Type: "unsubscribe", ID: s.ID} is encoded and
\* framed; s.client.writeMu.Lock(); _, err = s.client.conn.Write(frame);
\* s.client.writeMu.Unlock(); return err.  No pending entry is made.
Unsubscribe_write(c) ==
    /\ ~panicked
    /\ pc[c] = "unsub_write"
    /\ \E ok \in WriteOutcomes :
         /\ Return(c, IF ok THEN Nil(NoMsg) ELSE WriteErr)
         /\ hist' = [hist EXCEPT !.unsubbed = @ \cup {cid[c]},
                                 !.unsubSent[cid[c]] = IF ok THEN Min(@ + 1, 2) ELSE @]
    /\ UNCHANGED <<requestID, pendVars, subVars, flagVars, conn, op, cid, rl,
                   srvVars, panicked>>
    /\ UNCHANGED partVars

\* The steps of Unsubscribe after its removal from the registry.
UnsubscribeStep(c) ==
    \/ Unsubscribe_close(c)
    \/ Unsubscribe_write(c)

\* The life of subscriptions: callers subscribe, unsubscribe and close, the
\* consumer receives, the server acknowledges and notifies, the transport may
\* fail.
SubNext ==
    \/ \E c \in Callers : Subscribe(c)
    \/ \E c \in Callers : SendStep(c)
    \/ \E c \in Callers : Subscribe_register(c)
    \/ \E c \in Callers, i \in IDs : Unsubscribe(c, i)
    \/ \E c \in Callers : UnsubscribeStep(c)
    \/ \E c \in Callers : Close_swap(c)
    \/ \E c \in Callers : CloseStep(c)
    \/ \E i \in IDs : Changes_recv(i)
    \/ TransportFail
    \/ \E f \in Replies({"result", "error"}) \cup Notifications :
         receiveLoop_readHeader(f)
    \/ ReadLoopStep
    \/ NotifyStep

SubSpec == Init /\ [][SubNext]_allVars

\* C22, as stated: once Unsubscribe has returned for an id, the id is absent
\* from the registry, its queue is closed, it has no pending entry and one
\* unsubscribe envelope carrying it has been written.
C22_UnsubscribeWritesEnvelope ==
    \A i \in hist.unsubbed :
      /\ subscriptions[i] = 0
      /\ changes[i].shut
      /\ pending[i] = 0
      /\ hist.unsubSent[i] = 1

\* C22, amended: once Unsubscribe has returned for an id, the id is absent
\* from the registry, its queue is closed and it has no pending entry; the
\* call returned nil with one unsubscribe envelope written, or it returned the
\* error of the write with none written; from then on nothing is enqueued on
\* the queue, the id is not registered again, and an envelope carrying the id
\* that is not a change notification is discarded at the lookup.
C22_UnsubscribeBestEffort ==
    /\ [](\A i \in hist.unsubbed :
            /\ subscriptions[i] = 0
            /\ changes[i].shut
            /\ pending[i] = 0
            /\ hist.unsubSent[i] <= 1)
    /\ [](\A c \in Callers :
            (op[c] = "unsubscribe" /\ pc[c] = "idle") =>
              /\ cid[c] \in hist.unsubbed
              /\ result[c] \in {Nil(NoMsg), WriteErr}
              /\ result[c].err = "nil" <=> hist.unsubSent[cid[c]] = 1)
    /\ [][\A i \in hist.unsubbed :
            /\ Len(changes'[i].q) <= Len(changes[i].q)
            /\ (/\ rl.pc = "dispatch"
                /\ rl.cur.ID = i
                /\ rl' # rl)
                 => (/\ rl' = [pc |-> "top", cur |-> NoMsg, ch |-> 0]
                     /\ UNCHANGED <<pending, respCh, subscriptions, changes>>)]_vars

\* Unsubscribe has returned nil for an id with its one envelope written, and a
\* change notification for that id that came afterwards is at the registry
\* lookup.
C22_Witness ==
    \E c \in Callers :
      /\ op[c] = "unsubscribe" /\ pc[c] = "idle" /\ result[c].err = "nil"
      /\ hist.unsubSent[cid[c]] = 1
      /\ rl.pc = "dispatch" /\ IsChange(rl.cur) /\ rl.cur.ID = cid[c]
      /\ subscriptions[cid[c]] = 0

\* ================================================== the two table locks
\* The operations of each routine of the client in the order of the code,
\* with the locks taken and released where the code takes and releases them.
\* pendingMu and subMu are RWMutexes, writeMu is a Mutex.
Do(k, o) == [op |-> k, on |-> o]

\* send up to its wait: the entry is inserted, the frame is written, the
\* reply is awaited
Ops_send ==
    <<Do("lock", "pendingMu"), Do("insert", "pending"), Do("unlock", "pendingMu"),
      Do("lock", "writeMu"), Do("write", "conn"), Do("unlock", "writeMu"),
      Do("recv", "respCh")>>

\* send when its write fails: the entry is deleted
Ops_send_writeFailed ==
    <<Do("lock", "pendingMu"), Do("insert", "pending"), Do("unlock", "pendingMu"),
      Do("lock", "writeMu"), Do("write", "conn"), Do("unlock", "writeMu"),
      Do("lock", "pendingMu"), Do("delete", "pending"), Do("unlock", "pendingMu")>>

\* Subscribe: send, then the registration
Ops_Subscribe ==
    Ops_send \o
    <<Do("lock", "subMu"), Do("insert", "subscriptions"), Do("unlock", "subMu")>>

\* An Unsubscribe that writes the envelope before it releases the registry.
Ops_Unsubscribe_WriteLocked ==
    <<Do("lock", "subMu"), Do("delete", "subscriptions"),
      Do("close", "changes"),
      Do("lock", "writeMu"), Do("write", "conn"), Do("unlock", "writeMu"),
      Do("unlock", "subMu")>>

\* Subscription.Unsubscribe
Ops_Unsubscribe ==
    <<Do("lock", "subMu"), Do("delete", "subscriptions"), Do("unlock", "subMu"),
      Do("close", "changes"),
      Do("lock", "writeMu"), Do("write", "conn"), Do("unlock", "writeMu")>>

\* Close, when it is the first
Ops_Close ==
    <<Do("swap", "closed"),
      Do("lock", "subMu"), Do("close", "changes"), Do("delete", "subscriptions"),
      Do("unlock", "subMu"),
      Do("connclose", "conn")>>

\* receiveLoop and dispatchMessage on a change notification
Ops_dispatchMessage_change ==
    <<Do("read", "conn"), Do("read", "conn"),
      Do("rlock", "subMu"), Do("lookup", "subscriptions"), Do("runlock", "subMu"),
      Do("trysend", "changes")>>

\* A dispatch that sends the reply before it releases the table.
Ops_dispatchMessage_reply_SendLocked ==
    <<Do("read", "conn"), Do("read", "conn"),
      Do("lock", "pendingMu"), Do("lookup", "pending"), Do("delete", "pending"),
      Do("send", "respCh"), Do("unlock", "pendingMu")>>

\* receiveLoop and dispatchMessage on a reply
Ops_dispatchMessage_reply ==
    <<Do("read", "conn"), Do("read", "conn"),
      Do("lock", "pendingMu"), Do("lookup", "pending"), Do("delete", "pending"),
      Do("unlock", "pendingMu"),
      Do("send", "respCh")>>

\* receiveLoop on a read error: handleDisconnect, then the deferred close
Ops_handleDisconnect ==
    <<Do("read", "conn"),
      Do("lock", "pendingMu"), Do("close", "respCh"), Do("delete", "pending"),
      Do("unlock", "pendingMu"),
      Do("close", "closedCh")>>

Routine(r) ==
    CASE r = "send" -> Ops_send
      [] r = "send_writeFailed" -> Ops_send_writeFailed
      [] r = "Subscribe" -> Ops_Subscribe
      [] r = "Unsubscribe" -> Ops_Unsubscribe
      [] r = "Close" -> Ops_Close
      [] r = "dispatchMessage_change" -> Ops_dispatchMessage_change
      [] r = "dispatchMessage_reply" -> Ops_dispatchMessage_reply
      [] r = "handleDisconnect" -> Ops_handleDisconnect

\* The goroutines: the callers and the read loop.
ReadLoop == 0

Goroutines == Callers \cup {ReadLoop}

RoutinesOf(g) ==
    IF g = ReadLoop
      THEN {"dispatchMessage_change", "dispatchMessage_reply", "handleDisconnect"}
      ELSE {"send", "send_writeFailed", "Subscribe", "Unsubscribe", "Close"}

Mutexes == {"pendingMu", "subMu", "writeMu"}

\*   run   per goroutine, the routine it is in ("none" between routines,
\*         "stopped" for the read loop after handleDisconnect)
\*   at    per goroutine, the operation of the routine it is about to perform
\*   mu    per lock, its writer (-1 when it has none) and its readers
LockInit ==
    /\ SessionInit
    /\ connecting = Off
    /\ codec = Off
    /\ sessions = Off
    /\ writer = Off
    /\ stream = Off
    /\ locking = [pc |-> "on",
                  run |-> [g \in Goroutines |-> "none"],
                  at |-> [g \in Goroutines |-> 1],
                  mu |-> [m \in Mutexes |-> [w |-> -1, r |-> {}]]]
    /\ consumer = Off
    /\ cache = Off
    /\ builder = Off

LockRest == <<vars, connecting, codec, sessions, writer, stream, consumer,
              cache, builder>>

\* The operation a goroutine is about to perform.
NextOp(g) == Routine(locking.run[g])[locking.at[g]]

InRoutine(g) == locking.run[g] \notin {"none", "stopped"}

\* The goroutine has performed its operation: it goes on to the next, or
\* leaves the routine after the last.
Advance(l, g) ==
    IF l.at[g] < Len(Routine(l.run[g]))
      THEN [l EXCEPT !.at[g] = @ + 1]
      ELSE [l EXCEPT !.at[g] = 1,
                     !.run[g] = IF @ = "handleDisconnect" THEN "stopped" ELSE "none"]

\* A goroutine enters a routine.
Enter(g, r) ==
    /\ locking.run[g] = "none"
    /\ locking' = [locking EXCEPT !.run[g] = r, !.at[g] = 1]
    /\ UNCHANGED LockRest

\* mu.Lock(): waits until the lock has no writer and no reader
Mutex_Lock(g) ==
    /\ InRoutine(g)
    /\ NextOp(g).op = "lock"
    /\ locking.mu[NextOp(g).on] = [w |-> -1, r |-> {}]
    /\ locking' = Advance([locking EXCEPT !.mu[NextOp(g).on].w = g], g)
    /\ UNCHANGED LockRest

\* mu.RLock(): waits until the lock has no writer
Mutex_RLock(g) ==
    /\ InRoutine(g)
    /\ NextOp(g).op = "rlock"
    /\ locking.mu[NextOp(g).on].w = -1
    /\ locking' = Advance([locking EXCEPT !.mu[NextOp(g).on].r = @ \cup {g}], g)
    /\ UNCHANGED LockRest

\* mu.Unlock(), mu.RUnlock()
Mutex_Unlock(g) ==
    /\ InRoutine(g)
    /\ NextOp(g).op \in {"unlock", "runlock"}
    /\ locking' = Advance([locking EXCEPT
                             !.mu[NextOp(g).on] =
                                IF NextOp(g).op = "unlock"
                                  THEN [@ EXCEPT !.w = -1]
                                  ELSE [@ EXCEPT !.r = @ \ {g}]], g)
    /\ UNCHANGED LockRest

\* Any other operation of the routine.
Perform(g) ==
    /\ InRoutine(g)
    /\ NextOp(g).op \notin {"lock", "rlock", "unlock", "runlock"}
    /\ locking' = Advance(locking, g)
    /\ UNCHANGED LockRest

LockNext ==
    \/ \E g \in Goroutines : \E r \in RoutinesOf(g) : Enter(g, r)
    \/ \E g \in Goroutines : Mutex_Lock(g)
    \/ \E g \in Goroutines : Mutex_RLock(g)
    \/ \E g \in Goroutines : Mutex_Unlock(g)
    \/ \E g \in Goroutines : Perform(g)

LockSpec == LockInit /\ [][LockNext]_allVars

\* The table locks a goroutine holds.
Held(g) ==
    {m \in {"pendingMu", "subMu"} : locking.mu[m].w = g \/ g \in locking.mu[m].r}

\* The operations that can block: a socket write or read, a send on a channel
\* that may be full, the wait for a reply, taking a lock.
Blocking == {"write", "read", "send", "recv", "lock", "rlock"}

\* C30: a goroutine about to perform an operation that can block holds
\* neither pendingMu nor subMu; while it holds one of them its next operation
\* is a map lookup, insert or delete, a channel close or the release of the
\* lock; it never holds both; and each lock has one writer and no reader, or
\* only readers.
C30_NoBlockingUnderTableLocks ==
    /\ \A g \in Goroutines :
         InRoutine(g) =>
           /\ NextOp(g).op \in Blocking => Held(g) = {}
           /\ Held(g) # {} =>
                NextOp(g).op \in {"lookup", "insert", "delete", "close", "unlock", "runlock"}
           /\ Cardinality(Held(g)) <= 1
    /\ \A m \in Mutexes : locking.mu[m].w = -1 \/ locking.mu[m].r = {}

\* The read loop holds pendingMu in handleDisconnect and is about to close a
\* slot while a caller waits for pendingMu in send and another caller holds
\* subMu in Close.
C30_Witness ==
    /\ locking.pc = "on"
    /\ locking.mu["pendingMu"].w = ReadLoop
    /\ locking.run[ReadLoop] = "handleDisconnect" /\ NextOp(ReadLoop).op = "close"
    /\ \E c, d \in Callers :
         /\ locking.run[c] = "send" /\ NextOp(c) = Do("lock", "pendingMu")
         /\ locking.run[d] = "Close" /\ locking.mu["subMu"].w = d

\* ===================================================== queues and closing
\* C31: no step of the read loop is a send on a delivery queue that has been
\* closed: whenever the non-blocking send of dispatchMessage runs, the queue
\* the registry lookup returned is still open, whatever Unsubscribe and Close
\* did between the lookup and the send.
C31_NoSendOnClosedQueue ==
    [][~(dispatchMessage_enqueue /\ changes[rl.ch].shut)]_allVars

\* C32: a delivery queue is closed at most once: the close of Unsubscribe
\* never finds the queue of its handle already closed (by an earlier
\* Unsubscribe on the handle or by Close of the session), and the sweep of
\* Close never finds a registered queue already closed.
C32_QueueClosedOnce ==
    [][/\ \A c \in Callers : ~(Unsubscribe_close(c) /\ changes[cid[c]].shut)
       /\ \A c \in Callers :
            ~(Close_subs(c) /\ \E j \in Registered : changes[j].shut)]_allVars

\* C33: a caller blocked in send whose slot holds the reply the read loop
\* delivered leaves the wait with that reply (send returns it to the call),
\* never with the closed error, also when the read loop has exited and the
\* closed-signal has fired before the caller wakes up.
C33_DeliveredReplyReturned ==
    [][\A c \in Callers :
         (/\ pc[c] = "send_wait"
          /\ respCh[cid[c]].buf # NoMsg
          /\ pc'[c] # "send_wait")
           => (/\ result'[c].resp = respCh[cid[c]].buf
               /\ result'[c] # ErrClosed)]_allVars

\* C34: a change envelope that the read loop dispatches after it delivered
\* the non-error reply to the Subscribe call with the same id (so the server
\* sent it after that reply), while the session is not closed and the caller
\* is still between the reply and the return of Subscribe, is looked up
\* successfully and goes on to the send on the subscription's queue.
C34_NoEventLostWhileRegistering ==
    [][\A c \in Callers :
         (/\ dispatchMessage_change
          /\ ~closed
          /\ op[c] = "subscribe"
          /\ cid[c] = rl.cur.ID
          /\ \/ pc[c] = "sub_reg"
             \/ /\ pc[c] = "send_wait"
                /\ respCh[cid[c]].buf.Type \notin {"none", "error"})
           => rl'.pc = "enqueue"]_allVars

\* ====================================================== lock progress
\* All the locks a goroutine holds.
Holds(g) ==
    {m \in Mutexes : locking.mu[m].w = g \/ g \in locking.mu[m].r}

\* The goroutine is about to take a lock.
Acquiring(g) == InRoutine(g) /\ NextOp(g).op \in {"lock", "rlock"}

\* The scheduling the Go runtime gives the routines: a goroutine that holds
\* a lock goes on running (the map operations, channel closes and the socket
\* write under a lock return) and releases it; sync.Mutex and sync.RWMutex
\* hand a lock that is released again and again to a goroutine that keeps
\* waiting for it (starvation mode of Mutex, the reader hand-over of
\* RWMutex.Unlock).  Nothing makes a caller enter a routine.
LockFairness ==
    \A g \in Goroutines :
      /\ WF_allVars(Mutex_Unlock(g))
      /\ WF_allVars(Perform(g) /\ Holds(g) # {})
      /\ SF_allVars(Mutex_Lock(g))
      /\ SF_allVars(Mutex_RLock(g))

LockLiveSpec == LockInit /\ [][LockNext]_allVars /\ LockFairness

\* C35: no goroutine ever holds two of writeMu, pendingMu and subMu at the
\* same time: a goroutine about to take one of them holds none; and every
\* goroutine that is about to take a lock eventually holds it, with the
\* callers, the read loop, Unsubscribe and Close running concurrently.
C35_NoLockDeadlock ==
    /\ [](\A g \in Goroutines :
            /\ Cardinality(Holds(g)) <= 1
            /\ Acquiring(g) => Holds(g) = {})
    /\ \A g \in Goroutines : Acquiring(g) ~> (Holds(g) # {})

\* A caller in send waits for writeMu, which the other caller holds inside
\* Unsubscribe, while the read loop is about to take pendingMu in
\* handleDisconnect.
C35_Witness ==
    /\ locking.pc = "on"
    /\ \E c, d \in Callers :
         /\ c # d
         /\ Acquiring(c) /\ NextOp(c).on = "writeMu" /\ locking.run[c] = "send"
         /\ locking.mu["writeMu"].w = d /\ locking.run[d] = "Unsubscribe"
    /\ Acquiring(ReadLoop) /\ NextOp(ReadLoop).on = "pendingMu"
    /\ locking.run[ReadLoop] = "handleDisconnect"

\* ============================================ subscriptions after a read error
\* A session on which Close and Unsubscribe are never called: callers
\* subscribe, the consumers receive, the server acknowledges and notifies,
\* the transport may fail.
DisconnectNext ==
    \/ \E c \in Callers : Subscribe(c)
    \/ \E c \in Callers : SendStep(c)
    \/ \E c \in Callers : Subscribe_register(c)
    \/ \E i \in IDs : Changes_recv(i)
    \/ TransportFail
    \/ \E f \in Replies({"result", "error"}) \cup Notifications :
         receiveLoop_readHeader(f)
    \/ ReadLoopStep
    \/ NotifyStep

\* Scheduling: every goroutine that can take a step of its own eventually
\* takes it, a read of a dead transport returns, and a consumer goes on
\* receiving from its queue.  Nothing obliges the server to send, the
\* transport to fail or a caller to subscribe.
DisconnectSpec ==
    /\ Init
    /\ [][DisconnectNext]_allVars
    /\ \A c \in Callers : WF_vars(SendStep(c)) /\ WF_vars(Subscribe_register(c))
    /\ \A i \in IDs : WF_vars(Changes_recv(i))
    /\ WF_vars(ReadLoopStep)
    /\ WF_vars(NotifyStep)

\* C37: once the read loop has met an unrecoverable read error (and Close is
\* never called), the queue of every open subscription is eventually closed,
\* so that its consumer observes the end of the sequence.
C37_ConsumersSeeEnd ==
    \A i \in IDs :
      (hist.fatal /\ changes[i].made /\ ~changes[i].shut) ~> changes[i].shut

\* ===================================================== what consumers receive
\*   got   per id, the events the consumer of that subscription has received
\*         from Changes(), in the order it received them
DeliveryInit ==
    /\ SessionInit
    /\ connecting = Off
    /\ codec = Off
    /\ sessions = Off
    /\ writer = Off
    /\ stream = Off
    /\ locking = Off
    /\ consumer = [pc |-> "on", got |-> [i \in IDs |-> <<>>]]
    /\ cache = Off
    /\ builder = Off

\* The consumer of subscription i receives the next event from the channel
\* Changes() returned and keeps it.
Consumer_recv(i) ==
    /\ ~panicked
    /\ changes[i].made
    /\ changes[i].q # <<>>
    /\ changes' = [changes EXCEPT ![i].q = Tail(@)]
    /\ consumer' = [consumer EXCEPT !.got[i] = Append(@, Head(changes[i].q))]
    /\ UNCHANGED <<requestID, pendVars, subscriptions, flagVars, conn,
                   callVars, rl, srvVars, panicked, hist>>
    /\ UNCHANGED <<connecting, codec, sessions, writer, stream, locking, cache,
                   builder>>

\* Callers subscribe, the server acknowledges and notifies, the read loop
\* dispatches, the consumers receive, the transport may fail.
DeliveryNext ==
    \/ \E c \in Callers : Subscribe(c)
    \/ \E c \in Callers : SendStep(c)
    \/ \E c \in Callers : Subscribe_register(c)
    \/ \E i \in IDs : Consumer_recv(i)
    \/ TransportFail
    \/ \E f \in Replies({"result"}) \cup Notifications :
         receiveLoop_readHeader(f)
    \/ ReadLoopStep
    \/ NotifyStep

DeliverySpec == DeliveryInit /\ [][DeliveryNext]_allVars

\* The events subscription i has handed or will hand to its consumer, in
\* order: those received, then those waiting in the queue.
Delivered(i) == consumer.got[i] \o changes[i].q

\* C36: an event <<j, n>> names the envelope that carried it (id j, n-th
\* frame the read loop read).  What the consumer of subscription i has
\* received, followed by what waits in its queue, holds only events of
\* envelopes with id i that the read loop has read, in strictly increasing
\* order of their frames: an order-preserving subsequence of the change
\* envelopes received for i, without duplicates and without events of another
\* id.
C36_OrderedSubsequence ==
    \A i \in IDs :
      /\ \A k \in 1..Len(Delivered(i)) :
           /\ Delivered(i)[k][1] = i
           /\ Delivered(i)[k][2] \in 1..nFrames
      /\ \A k, l \in 1..Len(Delivered(i)) :
           k < l => Delivered(i)[k][2] < Delivered(i)[l][2]

\* A consumer has received two events, which had waited in its queue
\* together, and a third one for the same subscription met the full queue and
\* was dropped.
C36_Witness ==
    /\ consumer # Off
    /\ hist.dropped
    /\ \E i \in IDs : Len(consumer.got[i]) = 2

\* ============================================================ cache client
MaxCommands == 3     \* execute calls made on the cache client

\* The keys the commands name and what the server holds for them.
CacheKeys == {"a", "b"}

CacheValue(key) == IF key = "a" THEN "1" ELSE "2"

\* What execute has not returned yet.
NoReturn == [err |-> "none", resp |-> <<>>]

\*   at      per caller, its position in execute
\*   cmd     per caller, the command of its call: its arguments and the number
\*           of the call (which is not on the wire)
\*   ret     per caller, what its last call returned
\*   calls   execute calls made
\*   sent    the commands written to the connection the server has not taken
\*   rcvd    the responses the server has written that no caller has read
\*   readMu  the caller that holds readMu, 0 when it is free
CacheInit ==
    /\ SessionInit
    /\ connecting = Off
    /\ codec = Off
    /\ sessions = Off
    /\ writer = Off
    /\ stream = Off
    /\ locking = Off
    /\ consumer = Off
    /\ cache = [pc |-> "on",
                at |-> [c \in Callers |-> "idle"],
                cmd |-> [c \in Callers |-> [n |-> 0, args |-> <<>>]],
                ret |-> [c \in Callers |-> NoReturn],
                calls |-> 0,
                sent |-> <<>>,
                rcvd |-> <<>>,
                readMu |-> 0]
    /\ builder = Off

CacheRest == <<vars, connecting, codec, sessions, writer, stream, locking,
               consumer, builder>>

\* execute(ctx, "GET", key) is called (the client is not closed, the ctx has
\* no deadline): cmd := encodeCommand(args...)
execute(c, key) ==
    /\ cache.pc = "on"
    /\ cache.at[c] = "idle"
    /\ cache.calls < MaxCommands
    /\ cache' = [cache EXCEPT !.at[c] = "write",
                              !.cmd[c] = [n |-> cache.calls + 1, args |-> <<"GET", key>>],
                              !.ret[c] = NoReturn,
                              !.calls = @ + 1]
    /\ UNCHANGED CacheRest

\* execute: c.writeMu.Lock(); _, err := c.conn.Write(cmd); c.writeMu.Unlock();
\* if err != nil { return RespValue{}, fmt.Errorf("write command: %w", err) }
execute_write(c) ==
    /\ cache.pc = "on"
    /\ cache.at[c] = "write"
    /\ \E ok \in WriteOutcomes :
         cache' = IF ok
                    THEN [cache EXCEPT !.sent = Append(@, cache.cmd[c]),
                                       !.at[c] = "lockRead"]
                    ELSE [cache EXCEPT !.at[c] = "idle",
                                       !.ret[c] = [err |-> "write command", resp |-> <<>>]]
    /\ UNCHANGED CacheRest

\* execute: c.readMu.Lock()
execute_lockRead(c) ==
    /\ cache.pc = "on"
    /\ cache.at[c] = "lockRead"
    /\ cache.readMu = 0
    /\ cache' = [cache EXCEPT !.readMu = c, !.at[c] = "read"]
    /\ UNCHANGED CacheRest

\* execute: resp, err := readResp(c.reader); c.readMu.Unlock(); return resp, nil.
\* readResp waits for the next response on the connection.
execute_read(c) ==
    /\ cache.pc = "on"
    /\ cache.at[c] = "read"
    /\ cache.rcvd # <<>>
    /\ cache' = [cache EXCEPT !.rcvd = Tail(@),
                              !.readMu = 0,
                              !.at[c] = "idle",
                              !.ret[c] = [err |-> "nil", resp |-> Head(cache.rcvd)]]
    /\ UNCHANGED CacheRest

\* The server takes the next command from the connection and writes the
\* response to it: commands are answered in the order they arrive.
cacheServer_reply ==
    /\ cache.pc = "on"
    /\ cache.sent # <<>>
    /\ cache' = [cache EXCEPT
                   !.sent = Tail(@),
                   !.rcvd = Append(@, [of |-> Head(cache.sent).n,
                                       value |-> CacheValue(Head(cache.sent).args[2])])]
    /\ UNCHANGED CacheRest

CacheNext ==
    \/ \E c \in Callers : \E key \in CacheKeys : execute(c, key)
    \/ \E c \in Callers : execute_write(c)
    \/ \E c \in Callers : execute_lockRead(c)
    \/ \E c \in Callers : execute_read(c)
    \/ cacheServer_reply

CacheSpec == CacheInit /\ [][CacheNext]_allVars

\* C38: every execute call that returns a response returns the response the
\* server wrote to the command of that call, with the value of the key the
\* call named, however the calls of the callers interleave.
C38_ResponsePaired ==
    \A c \in Callers :
      (cache # Off /\ cache.at[c] = "idle" /\ cache.ret[c].err = "nil")
        => /\ cache.ret[c].resp.of = cache.cmd[c].n
           /\ cache.ret[c].resp.value = CacheValue(cache.cmd[c].args[2])

\* ============================================================ query builder
MaxFinds == 2        \* Find calls made on the builder
MaxSorts == 1        \* Sort calls made on the builder

\* FilterCondition{string(f): gteOp{value}} and the like: a map from field to
\* operation, written as the set of its <<field, operation, value>> entries.
\* A nil map has no entries and is nil.
NilCondition == [nil |-> TRUE, ops |-> {}]

\* Field(f).Eq(value), .Gte(value), .Lte(value)
FieldOp(f, kind, value) == [nil |-> FALSE, ops |-> {<<f, kind, value>>}]

\* The conditions the calls pass to Find.
Conditions ==
    {FieldOp("age", "gteOp", 18), FieldOp("age", "lteOp", 65),
     FieldOp("name", "eqOp", 7)}

\* filterToStructured: the key an operation gets in the structured filter
StructuredKey(kind) ==
    CASE kind = "eqOp" -> "$eq"
      [] kind = "gteOp" -> "$gte"
      [] kind = "lteOp" -> "$lte"

\* filterToStructured: result[field] = map[string]interface{}{"$gte": op.value},
\* the nested map written as the set of its <<field, key, value>> entries
filterToStructured(condition) ==
    {<<e[1], StructuredKey(e[2]), e[3]>> : e \in condition.ops}

\* op.compile(field): fmt.Sprintf("doc.%s >= %v", field, o.value), as tokens
compile(e) ==
    <<"doc.", e[1],
      CASE e[2] = "eqOp" -> " === " [] e[2] = "gteOp" -> " >= " [] e[2] = "lteOp" -> " <= ",
      e[3]>>

\* compileFilter of a condition of one field; "true" for one without parts
compileFilter(condition) ==
    IF condition.ops = {} THEN <<"true">>
    ELSE compile(CHOOSE e \in condition.ops : TRUE)

\* A *int that is nil, and one that points to n.
NilInt == [nil |-> TRUE, n |-> 0]

IntPtr(n) == [nil |-> FALSE, n |-> n]

\* Table(name): &QueryBuilder{tableName: name}
Table(name) ==
    [tableName |-> name, filterExpr |-> <<>>, filterCondition |-> NilCondition,
     sortSpecs |-> <<>>, limitValue |-> NilInt, skipValue |-> NilInt,
     isChanges |-> FALSE]

\* No structured query has been compiled.
NoQuery == [made |-> FALSE]

\*   q      the QueryBuilder
\*   finds  the conditions passed to Find so far, in order
\*   out    the StructuredQuery the last CompileStructured returned
BuilderInit ==
    /\ SessionInit
    /\ connecting = Off
    /\ codec = Off
    /\ sessions = Off
    /\ writer = Off
    /\ stream = Off
    /\ locking = Off
    /\ consumer = Off
    /\ cache = Off
    /\ \E name \in {"users", "posts"} :
         builder = [pc |-> "on", q |-> Table(name), finds |-> <<>>, out |-> NoQuery]

BuilderRest == <<vars, connecting, codec, sessions, writer, stream, locking,
                 consumer, cache>>

\* Find: q.filterCondition = condition; q.filterExpr = compileFilter(condition)
Find(condition) ==
    /\ builder.pc = "on"
    /\ Len(builder.finds) < MaxFinds
    /\ builder' = [builder EXCEPT !.q.filterCondition = condition,
                                  !.q.filterExpr = compileFilter(condition),
                                  !.finds = Append(@, condition)]
    /\ UNCHANGED BuilderRest

\* Sort: q.sortSpecs = append(q.sortSpecs, SortSpec{Field: field, Direction: direction})
Sort(field, direction) ==
    /\ builder.pc = "on"
    /\ Len(builder.q.sortSpecs) < MaxSorts
    /\ builder' = [builder EXCEPT
                     !.q.sortSpecs = Append(@, [Field |-> field, Direction |-> direction])]
    /\ UNCHANGED BuilderRest

\* Limit: q.limitValue = &n
Limit(n) ==
    /\ builder.pc = "on"
    /\ builder' = [builder EXCEPT !.q.limitValue = IntPtr(n)]
    /\ UNCHANGED BuilderRest

\* Skip: q.skipValue = &n
Skip(n) ==
    /\ builder.pc = "on"
    /\ builder' = [builder EXCEPT !.q.skipValue = IntPtr(n)]
    /\ UNCHANGED BuilderRest

\* Changes: q.isChanges = true
Changes ==
    /\ builder.pc = "on"
    /\ builder' = [builder EXCEPT !.q.isChanges = TRUE]
    /\ UNCHANGED BuilderRest

\* CompileStructured: the structured query of the builder; Filter is set when
\* q.filterCondition != nil, Sort when there are sort specifications, Changes
\* (&ChangesSpec{IncludeInitial: false}) when q.isChanges
CompileStructured ==
    /\ builder.pc = "on"
    /\ builder' = [builder EXCEPT
                     !.out = [made |-> TRUE,
                              Table |-> builder.q.tableName,
                              Filter |-> IF ~builder.q.filterCondition.nil
                                           THEN filterToStructured(builder.q.filterCondition)
                                           ELSE {},
                              Sort |-> builder.q.sortSpecs,
                              Limit |-> builder.q.limitValue,
                              Skip |-> builder.q.skipValue,
                              Changes |-> IF builder.q.isChanges
                                            THEN [nil |-> FALSE, IncludeInitial |-> FALSE]
                                            ELSE [nil |-> TRUE, IncludeInitial |-> FALSE]]]
    /\ UNCHANGED BuilderRest

BuilderNext ==
    \/ \E condition \in Conditions : Find(condition)
    \/ \E field \in {"name"} : \E direction \in {"asc", "desc"} : Sort(field, direction)
    \/ \E n \in {10} : Limit(n)
    \/ \E n \in {5} : Skip(n)
    \/ Changes
    \/ CompileStructured

BuilderSpec == BuilderInit /\ [][BuilderNext]_allVars

\* C39: the filter of the structured query that CompileStructured returns
\* holds the entries of every condition passed to Find on the builder so far
\* (after Find(age >= 18) and Find(age <= 65) both age.$gte and age.$lte),
\* not only those of the last call.
C39_FindAccumulates ==
    [][CompileStructured =>
         \A k \in 1..Len(builder.finds) :
           filterToStructured(builder.finds[k]) \subseteq builder'.out.Filter]_allVars

====
